---- MODULE Spec2Model ----
(***************************************************************************)
(* A model of TempAnalyzer (temp_analysis.py): one cleaned, date-ordered   *)
(* daily temperature series and the query methods that derive result      *)
(* tables from it.                                                         *)
(*                                                                         *)
(* Temperatures are integers.  A mean is kept exact, as the pair           *)
(* [num, den] of the sum and the count it is the quotient of, and two      *)
(* means are compared by cross-multiplication.                             *)
(*                                                                         *)
(* pandas' sort_values and numpy's argsort are called by the program with  *)
(* their default kind ("quicksort"), which is not a stable sort: the       *)
(* order of rows with equal keys is whatever the build produces.  The      *)
(* model takes every order of the tied rows as a possible outcome.         *)
(***************************************************************************)
EXTENDS Integers, Sequences, FiniteSets, TLC

VARIABLES df, op, args, aux, out

vars == <<df, op, args, aux, out>>

----------------------------------------------------------------------------
(* Bounds of the model *)

\* longest series of the streak and window specifications
MaxLen == 4
\* longest series of the season specification
MaxCalLen == 3
\* longest series of the calendar-range specification
MaxRangeLen == 2
\* largest top_n a caller passes
MaxTopN == 3
\* largest n_days a caller passes
MaxDays == 3
\* most rows of a file the constructor reads
MaxRows == 2

Thresholds == {1, 2, 3}
Metrics == {"TMAX", "TMIN", "TAVG"}
Directions == {"above", "below"}
Extremes == {"coldest", "warmest"}

----------------------------------------------------------------------------
(* Dates *)

Date(y, m, d) == [year |-> y, month |-> m, day |-> d]

\* chronological order of two dates
DateLT(a, b) ==
    \/ a.year < b.year
    \/ a.year = b.year /\ a.month < b.month
    \/ a.year = b.year /\ a.month = b.month /\ a.day < b.day

DateLE(a, b) == a = b \/ DateLT(a, b)

----------------------------------------------------------------------------
(* Generic helpers on sequences of integers *)

RECURSIVE SumSeq(_)
SumSeq(s) == IF s = <<>> THEN 0 ELSE Head(s) + SumSeq(Tail(s))

MinSeq(s) == CHOOSE x \in {s[i] : i \in 1..Len(s)} :
                 \A j \in 1..Len(s) : x <= s[j]

MaxSeq(s) == CHOOSE x \in {s[i] : i \in 1..Len(s)} :
                 \A j \in 1..Len(s) : x >= s[j]

\* the mean of a non-empty sequence, exact
Mean(s) == [num |-> SumSeq(s), den |-> Len(s)]

MeanLT(a, b) == a.num * b.den < b.num * a.den
MeanLE(a, b) == a.num * b.den <= b.num * a.den
MeanEQ(a, b) == a.num * b.den = b.num * a.den

\* DataFrame.head(n) for n >= 0
HeadN(s, n) == SubSeq(s, 1, IF n < Len(s) THEN n ELSE Len(s))

\* the rows of s at the positions idx (an ascending sequence of positions)
Take(s, idx) == [k \in 1..Len(idx) |-> s[idx[k]]]

\* the members of a set of integers, ascending
RECURSIVE Ascending(_)
Ascending(S) ==
    IF S = {} THEN <<>>
    ELSE LET m == CHOOSE x \in S : \A y \in S : x <= y
         IN  <<m>> \o Ascending(S \ {m})

----------------------------------------------------------------------------
(* Sorting with the default, unstable kind *)

\* every order of the positions P in which key never increases (a
\* descending sort); positions with equal keys come out in any order
RECURSIVE Orderings(_, _)
Orderings(P, key) ==
    IF P = {} THEN {<<>>}
    ELSE UNION { { <<i>> \o rest : rest \in Orderings(P \ {i}, key) } :
                 i \in {i \in P : \A j \in P : key[i] >= key[j]} }

----------------------------------------------------------------------------
(* The series after construction *)

\* the (TMAX, TMIN) readings a record is drawn from
Readings == { <<0, 0>>, <<2, 0>>, <<2, 2>> }

\* the temperature fields of a record; TAVG as line 66 derives it
TempRows == { [TMAX |-> p[1], TMIN |-> p[2], TAVG |-> (p[1] + p[2]) \div 2] :
              p \in Readings }

DailyRecord(date, t) ==
    [DATE |-> date, TMAX |-> t.TMAX, TMIN |-> t.TMIN, TAVG |-> t.TAVG]

\* consecutive table rows need not be consecutive days: Jan 2 is missing
DayPool == << Date(2020, 12, 30), Date(2020, 12, 31), Date(2021, 1, 1),
              Date(2021, 1, 3),   Date(2021, 1, 4),   Date(2021, 1, 5),
              Date(2021, 1, 6),   Date(2021, 1, 7) >>

\* series of 1..n rows on the first days of DayPool
DailySeries(n) ==
    UNION { { [i \in 1..k |-> DailyRecord(DayPool[i], t[i])] :
              t \in [1..k -> TempRows] } : k \in 1..n }

\* dates over two years: a leap day, both ends of a year, every season
CalPool == << Date(2020, 2, 29), Date(2020, 6, 15), Date(2020, 10, 1),
              Date(2020, 12, 20), Date(2020, 12, 31), Date(2021, 1, 5),
              Date(2021, 2, 10), Date(2021, 3, 1),  Date(2021, 6, 15),
              Date(2021, 12, 31) >>

\* the ascending sequences of k positions of a pool of n dates
RECURSIVE Picks(_, _, _)
Picks(lo, n, k) ==
    IF k = 0 THEN {<<>>}
    ELSE UNION { { <<i>> \o rest : rest \in Picks(i + 1, n, k - 1) } :
                 i \in lo..n }

\* series of 1..n rows on dates of a pool (a sequence of dates in date
\* order), in date order
SeriesOn(pool, n) ==
    UNION { { [i \in 1..k |-> DailyRecord(pool[pick[i]], t[i])] :
              pick \in Picks(1, Len(pool), k), t \in [1..k -> TempRows] } :
            k \in 1..n }

\* series of 1..n rows on dates of CalPool, in date order
CalendarSeries(n) == SeriesOn(CalPool, n)

NoCall == [none |-> TRUE]

\* the caller has the result of the call it made and is ready for the next:
\* every caller is synchronous, one query at a time
consume ==
    /\ op # "idle"
    /\ op' = "idle"
    /\ args' = NoCall
    /\ aux' = <<>>
    /\ out' = <<>>
    /\ UNCHANGED df

----------------------------------------------------------------------------
(* find_streaks *)

\* a threshold condition that every row meets
MaskEveryRow(metric, threshold, direction) == [i \in 1..Len(df) |-> TRUE]

\* a threshold condition that leaves out the threshold itself
MaskStrict(metric, threshold, direction) ==
    [i \in 1..Len(df) |->
        IF direction = "above" THEN df[i][metric] > threshold
                               ELSE df[i][metric] < threshold]

\* lines 86-89: the threshold condition, row by row
Mask(metric, threshold, direction) ==
    [i \in 1..Len(df) |->
        IF direction = "above" THEN df[i][metric] >= threshold
                               ELSE df[i][metric] <= threshold]

\* line 92: (mask != mask.shift()).cumsum(); the first row differs from the
\* missing value shift() puts before it
StreakId(mask) ==
    [i \in 1..Len(df) |->
        Cardinality({j \in 1..i : j = 1 \/ mask[j] # mask[j - 1]})]

\* lines 95-106: the rows that meet the condition, grouped by streak_id
\* (groups in ascending streak_id order), one result row per group
StreakStats(metric, mask) ==
    LET sid  == StreakId(mask)
        ids  == Ascending({sid[i] : i \in {i \in 1..Len(df) : mask[i]}})
        rows(g) == Ascending({i \in 1..Len(df) : mask[i] /\ sid[i] = g})
        vals(g) == [k \in 1..Len(rows(g)) |-> df[rows(g)[k]][metric]]
    IN  [k \in 1..Len(ids) |->
            LET r == rows(ids[k])
                v == vals(ids[k])
            IN  [streak_id  |-> ids[k],
                 start_date |-> df[r[1]].DATE,
                 end_date   |-> df[r[Len(r)]].DATE,
                 length     |-> Len(r),
                 avg_temp   |-> Mean(v),
                 min_temp   |-> MinSeq(v),
                 max_temp   |-> MaxSeq(v)]]

\* a sort that ranks the shortest run first
SortByLengthAscending(stats) ==
    { Take(stats, o) :
      o \in Orderings(1..Len(stats), [i \in 1..Len(stats) |-> 0 - stats[i].length]) }

\* line 109: sort_values('length', ascending=False), default kind
SortByLength(stats) ==
    { Take(stats, o) :
      o \in Orderings(1..Len(stats), [i \in 1..Len(stats) |-> stats[i].length]) }

find_streaks ==
    /\ op = "idle"
    /\ \E metric \in Metrics, threshold \in Thresholds,
       direction \in Directions, top_n \in 0..MaxTopN :
         LET mask  == Mask(metric, threshold, direction)
             stats == StreakStats(metric, mask)
         IN  \E sorted \in SortByLength(stats) :
                 /\ op' = "find_streaks"
                 /\ args' = [metric |-> metric, threshold |-> threshold,
                             direction |-> direction, top_n |-> top_n]
                 /\ aux' = stats
                 /\ out' = HeadN(sorted, top_n)
                 /\ UNCHANGED df

----------------------------------------------------------------------------
(* find_extreme_periods *)

\* the metric over rows a..b
Column(metric, a, b) == [k \in 1..(b - a + 1) |-> df[a + k - 1][metric]]

\* a mean that expands from the first row of the series instead of rolling
RollingAvgExpanding(metric, n_days, last) == Mean(Column(metric, 1, last))

\* line 132: rolling(window=n_days, min_periods=n_days).mean() at the row
\* `last` (the window's last row), defined from row n_days on
RollingAvg(metric, n_days, last) == Mean(Column(metric, last - n_days + 1, last))

\* lines 135-136: the rows at which the rolling mean is defined
ValidIndices(n_days) == {i \in 1..Len(df) : i >= n_days}

\* a ranking that is ascending whatever the extreme asked for
SortedIndicesAscending(metric, n_days, extreme) ==
    Orderings(ValidIndices(n_days),
              [i \in ValidIndices(n_days) |->
                  0 - RollingAvg(metric, n_days, i).num])

\* lines 139-143: the valid rows ranked by rolling mean with argsort (default
\* kind), ascending for 'coldest', reversed for 'warmest'.  All windows have
\* n_days rows, so the means are in the order of the sums.
SortedIndices(metric, n_days, extreme) ==
    Orderings(ValidIndices(n_days),
              [i \in ValidIndices(n_days) |->
                  IF extreme = "coldest"
                  THEN 0 - RollingAvg(metric, n_days, i).num
                  ELSE RollingAvg(metric, n_days, i).num])

\* an overlap test that looks at the window's last row only
OverlapsLastRowOnly(date_range, used_dates) ==
    \E i \in date_range : i \in used_dates /\ \A j \in date_range : j <= i

\* line 163: any(i in used_dates for i in date_range)
Overlaps(date_range, used_dates) == \E i \in date_range : i \in used_dates

\* lines 167-182: the result row of the window that ends at row idx
PeriodRow(metric, n_days, idx) ==
    LET start_idx == idx - n_days + 1
        period_temps == Column(metric, start_idx, idx)
    IN  [start_date |-> df[start_idx].DATE,
         end_date   |-> df[idx].DATE,
         avg_temp   |-> RollingAvg(metric, n_days, idx),
         min_temp   |-> MinSeq(period_temps),
         max_temp   |-> MaxSeq(period_temps),
         length     |-> n_days]

\* lines 149-188: the loop over the ranked rows from position k on, with the
\* periods collected and the rows used so far
RECURSIVE CollectPeriods(_, _, _, _, _, _, _)
CollectPeriods(sorted_indices, k, periods, used_dates, metric, n_days, top_n) ==
    IF k > Len(sorted_indices) THEN periods
    ELSE
        LET idx == sorted_indices[k]
            start_idx == idx - n_days + 1
            date_range == start_idx..idx
        IN  IF start_idx < 1 \/ Overlaps(date_range, used_dates)
            THEN CollectPeriods(sorted_indices, k + 1, periods, used_dates,
                                metric, n_days, top_n)
            ELSE
                LET added == Append(periods, PeriodRow(metric, n_days, idx))
                IN  IF Len(added) >= top_n
                    THEN added
                    ELSE CollectPeriods(sorted_indices, k + 1, added,
                                        used_dates \cup date_range,
                                        metric, n_days, top_n)

find_extreme_periods ==
    /\ op = "idle"
    /\ \E metric \in Metrics, n_days \in 1..MaxDays,
          extreme \in Extremes, top_n \in 0..MaxTopN :
         \E sorted_indices \in SortedIndices(metric, n_days, extreme) :
             /\ op' = "find_extreme_periods"
             /\ args' = [metric |-> metric, n_days |-> n_days,
                         extreme |-> extreme, top_n |-> top_n]
             /\ aux' = sorted_indices
             /\ out' = CollectPeriods(sorted_indices, 1, <<>>, {},
                                      metric, n_days, top_n)
             /\ UNCHANGED df

----------------------------------------------------------------------------
(* Group statistics shared by the season and range rankings *)

\* the values of a field over the rows at positions idx
FieldOf(frame, idx, field) == [k \in 1..Len(idx) |-> frame[idx[k]][field]]

MinDate(frame, idx) ==
    CHOOSE d \in {frame[i].DATE : i \in idx} :
        \A i \in idx : DateLE(d, frame[i].DATE)

MaxDate(frame, idx) ==
    CHOOSE d \in {frame[i].DATE : i \in idx} :
        \A i \in idx : DateLE(frame[i].DATE, d)

\* frame.groupby(key).agg({metric: [mean, min, max, count], DATE: [min,
\* max]}).reset_index(): one row per key value, keys ascending
GroupStats(frame, key, metric) ==
    LET keys == Ascending({frame[i][key] : i \in 1..Len(frame)})
    IN  [g \in 1..Len(keys) |->
            LET idx == {i \in 1..Len(frame) : frame[i][key] = keys[g]}
                v   == FieldOf(frame, Ascending(idx), metric)
            IN  [year       |-> keys[g],
                 avg_temp   |-> Mean(v),
                 min_temp   |-> MinSeq(v),
                 max_temp   |-> MaxSeq(v),
                 days       |-> Len(v),
                 start_date |-> MinDate(frame, idx),
                 end_date   |-> MaxDate(frame, idx)]]

RECURSIVE Product(_)
Product(s) == IF s = <<>> THEN 1 ELSE Head(s) * Product(Tail(s))

\* a ranking that is warmest first whatever the direction asked for
SortByAvgTempDescending(stats, ascending) ==
    LET K == Product([i \in 1..Len(stats) |-> stats[i].avg_temp.den])
        scaled(i) == stats[i].avg_temp.num * (K \div stats[i].avg_temp.den)
    IN  { Take(stats, o) :
          o \in Orderings(1..Len(stats), [i \in 1..Len(stats) |-> scaled(i)]) }

\* sort_values('avg_temp', ascending=ascending), default kind: the means are
\* brought to a common denominator and ranked; equal means in any order
SortByAvgTemp(stats, ascending) ==
    LET K == Product([i \in 1..Len(stats) |-> stats[i].avg_temp.den])
        scaled(i) == stats[i].avg_temp.num * (K \div stats[i].avg_temp.den)
    IN  { Take(stats, o) :
          o \in Orderings(1..Len(stats),
                          [i \in 1..Len(stats) |->
                              IF ascending THEN 0 - scaled(i) ELSE scaled(i)]) }

\* the rows of a frame that a row-wise condition keeps, in order
RECURSIVE Filter(_, _)
Filter(frame, keep) ==
    IF frame = <<>> THEN <<>>
    ELSE IF keep[1]
         THEN <<Head(frame)>> \o Filter(Tail(frame), Tail(keep))
         ELSE Filter(Tail(frame), Tail(keep))

----------------------------------------------------------------------------
(* find_extreme_date_range *)

\* line 274
SpansYear(start_month, start_day, end_month, end_day) ==
    (start_month > end_month) \/ (start_month = end_month /\ start_day > end_day)

\* a mask whose year-spanning branch leaves out the end day itself
DateRangeMaskSpanBeforeEnd(row, start_month, start_day, end_month, end_day) ==
    LET month == row.DATE.month
        day   == row.DATE.day
    IN  IF SpansYear(start_month, start_day, end_month, end_day)
        THEN \/ month > start_month
             \/ (month = start_month /\ day >= start_day)
             \/ month < end_month
             \/ (month = end_month /\ day < end_day)
        ELSE /\ (month > start_month \/ (month = start_month /\ day >= start_day))
             /\ (month < end_month \/ (month = end_month /\ day <= end_day))

\* a mask whose same-year branch leaves out the end day itself
DateRangeMaskBeforeEnd(row, start_month, start_day, end_month, end_day) ==
    LET month == row.DATE.month
        day   == row.DATE.day
    IN  IF SpansYear(start_month, start_day, end_month, end_day)
        THEN \/ month > start_month
             \/ (month = start_month /\ day >= start_day)
             \/ month < end_month
             \/ (month = end_month /\ day <= end_day)
        ELSE /\ (month > start_month \/ (month = start_month /\ day >= start_day))
             /\ (month < end_month \/ (month = end_month /\ day < end_day))

\* lines 276-281 and 289-293: the mask of find_extreme_date_range on a row
DateRangeMask(row, start_month, start_day, end_month, end_day) ==
    LET month == row.DATE.month
        day   == row.DATE.day
    IN  IF SpansYear(start_month, start_day, end_month, end_day)
        THEN \/ month > start_month
             \/ (month = start_month /\ day >= start_day)
             \/ month < end_month
             \/ (month = end_month /\ day <= end_day)
        ELSE /\ (month > start_month \/ (month = start_month /\ day >= start_day))
             /\ (month < end_month \/ (month = end_month /\ day <= end_day))

\* a range_year that gives every row of a year-spanning range its own year
DateRangeYearOwnYear(row, start_month, start_day, end_month, end_day) ==
    row.DATE.year

\* lines 283-287 and 294: the range_year of a row
DateRangeYear(row, start_month, start_day, end_month, end_day) ==
    LET month == row.DATE.month
        day   == row.DATE.day
        year  == row.DATE.year
    IN  IF SpansYear(start_month, start_day, end_month, end_day)
        THEN IF month > start_month \/ (month = start_month /\ day >= start_day)
             THEN year
             ELSE year - 1
        ELSE year

\* a row of the series with the range_year column
WithRangeYear(row, y) ==
    [DATE |-> row.DATE, TMAX |-> row.TMAX, TMIN |-> row.TMIN,
     TAVG |-> row.TAVG, range_year |-> y]

\* lines 268-296: range_df, the rows in range with their range_year
DateRangeDf(start_month, start_day, end_month, end_day) ==
    Filter([i \in 1..Len(df) |->
               WithRangeYear(df[i],
                   DateRangeYear(df[i], start_month, start_day, end_month, end_day))],
           [i \in 1..Len(df) |->
               DateRangeMask(df[i], start_month, start_day, end_month, end_day)])

\* find_extreme_date_range called with a range of `ranges` (pairs of a start
\* and an end <<month, day>>) and the other arguments from the sets given
DateRangeCall(ranges, metrics, extremes, tops) ==
    /\ op = "idle"
    /\ \E range \in ranges, metric \in metrics,
          extreme \in extremes, top_n \in tops :
         LET start_month == range[1][1]
             start_day   == range[1][2]
             end_month   == range[2][1]
             end_day     == range[2][2]
             range_df    == DateRangeDf(start_month, start_day, end_month, end_day)
             range_stats == GroupStats(range_df, "range_year", metric)
         IN  \E sorted \in SortByAvgTemp(range_stats, extreme = "coldest") :
                 /\ op' = "find_extreme_date_range"
                 /\ args' = [start_month |-> start_month, start_day |-> start_day,
                             end_month |-> end_month, end_day |-> end_day,
                             metric |-> metric, extreme |-> extreme,
                             top_n |-> top_n]
                 /\ aux' = range_df
                 /\ out' = HeadN(sorted, top_n)
                 /\ UNCHANGED df

----------------------------------------------------------------------------
(* threshold_histogram *)

\* a mask that leaves the end day of the range out
HistogramMaskEndExcluded(row, start_month, start_day, end_month, end_day) ==
    LET month == row.DATE.month
        day   == row.DATE.day
    IN  IF (start_month > end_month) \/ (start_month = end_month /\ start_day > end_day)
        THEN \/ month > start_month
             \/ (month = start_month /\ day >= start_day)
             \/ month < end_month
             \/ (month = end_month /\ day < end_day)
        ELSE /\ (month > start_month \/ (month = start_month /\ day >= start_day))
             /\ (month < end_month \/ (month = end_month /\ day < end_day))

\* lines 343-347 and 354-357: the mask of threshold_histogram on a row
HistogramMask(row, start_month, start_day, end_month, end_day) ==
    LET month == row.DATE.month
        day   == row.DATE.day
    IN  IF (start_month > end_month) \/ (start_month = end_month /\ start_day > end_day)
        THEN \/ month > start_month
             \/ (month = start_month /\ day >= start_day)
             \/ month < end_month
             \/ (month = end_month /\ day <= end_day)
        ELSE /\ (month > start_month \/ (month = start_month /\ day >= start_day))
             /\ (month < end_month \/ (month = end_month /\ day <= end_day))

\* lines 348-352 and 358: the range_year of a row
HistogramRangeYear(row, start_month, start_day, end_month, end_day) ==
    LET month == row.DATE.month
        day   == row.DATE.day
        year  == row.DATE.year
    IN  IF (start_month > end_month) \/ (start_month = end_month /\ start_day > end_day)
        THEN IF month > start_month \/ (month = start_month /\ day >= start_day)
             THEN year
             ELSE year - 1
        ELSE year

\* lines 335-366: range_df with the meets_threshold column
HistogramDf(start_month, start_day, end_month, end_day, metric, threshold, direction) ==
    Filter([i \in 1..Len(df) |->
               [DATE |-> df[i].DATE, TMAX |-> df[i].TMAX, TMIN |-> df[i].TMIN,
                TAVG |-> df[i].TAVG,
                range_year |-> HistogramRangeYear(df[i], start_month, start_day,
                                                  end_month, end_day),
                meets_threshold |->
                    IF direction = "above" THEN df[i][metric] >= threshold
                                           ELSE df[i][metric] <= threshold]],
           [i \in 1..Len(df) |->
               HistogramMask(df[i], start_month, start_day, end_month, end_day)])

\* the share of days as a count per thousand in place of a percentage
PercentagePerMille(days, total) ==
    [num |-> (10000 * days) \div total, den |-> 10]

\* round(1): days / total * 100 to one decimal, in tenths of a percent,
\* halves to the even tenth
Percentage(days, total) ==
    LET q == (1000 * days) \div total
        r == (1000 * days) % total
        tenths == IF 2 * r > total THEN q + 1
                  ELSE IF 2 * r = total THEN q + (q % 2)
                  ELSE q
    IN  [num |-> tenths, den |-> 10]

\* per-year rows for the years that have a day meeting the threshold only
YearStatsOfMeetingYears(range_df) ==
    LET years == Ascending({range_df[i].range_year :
                               i \in {j \in 1..Len(range_df) : range_df[j].meets_threshold}})
    IN  [g \in 1..Len(years) |->
            LET idx == {i \in 1..Len(range_df) : range_df[i].range_year = years[g]}
                met == {i \in idx : range_df[i].meets_threshold}
            IN  [year |-> years[g],
                 days_meeting_threshold |-> Cardinality(met),
                 total_days |-> Cardinality(idx),
                 percentage |-> Percentage(Cardinality(met), Cardinality(idx))]]

\* lines 369-374: one row per range_year, years ascending
YearStats(range_df) ==
    LET years == Ascending({range_df[i].range_year : i \in 1..Len(range_df)})
    IN  [g \in 1..Len(years) |->
            LET idx == {i \in 1..Len(range_df) : range_df[i].range_year = years[g]}
                met == {i \in idx : range_df[i].meets_threshold}
            IN  [year |-> years[g],
                 days_meeting_threshold |-> Cardinality(met),
                 total_days |-> Cardinality(idx),
                 percentage |-> Percentage(Cardinality(met), Cardinality(idx))]]

\* a value that is missing (NaN): the quotient 0/0
NaN == [num |-> 0, den |-> 0]

\* lines 377-384.  std_days is kept as its square, the sample variance
\* (ddof = 1), which is missing for fewer than two years; the statistics of
\* no years at all are missing
Summary(year_stats) ==
    LET n    == Len(year_stats)
        days == [i \in 1..n |-> year_stats[i].days_meeting_threshold]
        sq   == [i \in 1..n |-> days[i] * days[i]]
    IN  [avg_days  |-> Mean(days),
         min_days  |-> IF n = 0 THEN NaN ELSE [num |-> MinSeq(days), den |-> 1],
         max_days  |-> IF n = 0 THEN NaN ELSE [num |-> MaxSeq(days), den |-> 1],
         std_days  |-> IF n < 2 THEN NaN
                       ELSE [num |-> n * SumSeq(sq) - SumSeq(days) * SumSeq(days),
                             den |-> n * (n - 1)],
         total_years |-> n,
         avg_percentage |->
             [num |-> SumSeq([i \in 1..n |-> year_stats[i].percentage.num]),
              den |-> 10 * n]]

\* line 388: sort_values('year', ascending=False); the years are distinct
Reverse(s) == [i \in 1..Len(s) |-> s[Len(s) + 1 - i]]

\* threshold_histogram called with a range of `ranges` and the other
\* arguments from the sets given
HistogramCall(ranges, metrics, thresholds, directions) ==
    /\ op = "idle"
    /\ \E range \in ranges, metric \in metrics,
          threshold \in thresholds, direction \in directions :
         LET start_month == range[1][1]
             start_day   == range[1][2]
             end_month   == range[2][1]
             end_day     == range[2][2]
             range_df    == HistogramDf(start_month, start_day, end_month, end_day,
                                        metric, threshold, direction)
             year_stats  == YearStats(range_df)
         IN  /\ op' = "threshold_histogram"
             /\ args' = [start_month |-> start_month, start_day |-> start_day,
                         end_month |-> end_month, end_day |-> end_day,
                         metric |-> metric, threshold |-> threshold,
                         direction |-> direction]
             /\ aux' = range_df
             /\ out' = [summary |-> Summary(year_stats),
                        by_year |-> Reverse(year_stats)]
             /\ UNCHANGED df

----------------------------------------------------------------------------
(* find_extreme_seasons *)

\* a season table in which December stays in its calendar year
SEASONSNoOffset(m) ==
    CASE m \in {12, 1, 2} -> <<"winter", 0>>
      [] m \in {3, 4, 5} -> <<"spring", 0>>
      [] m \in {6, 7, 8} -> <<"summer", 0>>
      [] m \in {9, 10, 11} -> <<"fall", 0>>

\* lines 194-199: month -> (season_name, year_offset)
SEASONS(m) ==
    CASE m = 12 -> <<"winter", 1>>
      [] m \in {1, 2} -> <<"winter", 0>>
      [] m \in {3, 4, 5} -> <<"spring", 0>>
      [] m \in {6, 7, 8} -> <<"summer", 0>>
      [] m \in {9, 10, 11} -> <<"fall", 0>>

SeasonNames == {"winter", "spring", "summer", "fall"}

\* lines 218-226: the series with the season and season_year columns
SeasonFrame ==
    [i \in 1..Len(df) |->
        [DATE |-> df[i].DATE, TMAX |-> df[i].TMAX, TMIN |-> df[i].TMIN,
         TAVG |-> df[i].TAVG,
         season |-> SEASONS(df[i].DATE.month)[1],
         season_year |-> df[i].DATE.year + SEASONS(df[i].DATE.month)[2]]]

\* lines 232-238: the groups of season_df, keyed season_year
SeasonStats(season_df, metric) ==
    LET g == GroupStats(season_df, "season_year", metric)
    IN  [k \in 1..Len(g) |->
            [season_year |-> g[k].year,
             avg_temp    |-> g[k].avg_temp,
             min_temp    |-> g[k].min_temp,
             max_temp    |-> g[k].max_temp,
             days        |-> g[k].days,
             start_date  |-> g[k].start_date,
             end_date    |-> g[k].end_date]]

\* find_extreme_seasons called with arguments from the sets given
SeasonCall(seasons, metrics, extremes, tops) ==
    /\ op = "idle"
    /\ \E season \in seasons, metric \in metrics,
          extreme \in extremes, top_n \in tops :
         LET frame        == SeasonFrame
             season_df    == Filter(frame, [i \in 1..Len(frame) |->
                                               frame[i].season = season])
             season_stats == SeasonStats(season_df, metric)
         IN  \E sorted \in SortByAvgTemp(season_stats, extreme = "coldest") :
                 /\ op' = "find_extreme_seasons"
                 /\ args' = [season |-> season, metric |-> metric,
                             extreme |-> extreme, top_n |-> top_n]
                 /\ aux' = frame
                 /\ out' = HeadN(sorted, top_n)
                 /\ UNCHANGED df

----------------------------------------------------------------------------
(* The calendar: dt.dayofyear and the difference of two dates in days *)

IsLeapYear(y) == y % 4 = 0 /\ (y % 100 # 0 \/ y % 400 = 0)

DaysInMonth(y, m) ==
    IF m = 2 THEN (IF IsLeapYear(y) THEN 29 ELSE 28)
    ELSE IF m \in {4, 6, 9, 11} THEN 30 ELSE 31

\* DATE.dt.dayofyear: 1 for January 1, 366 for December 31 of a leap year
DayOfYear(date) ==
    SumSeq([m \in 1..(date.month - 1) |-> DaysInMonth(date.year, m)]) + date.day

\* the number of the day in the proleptic Gregorian calendar, so that
\* (a - b).days = ToOrdinal(a) - ToOrdinal(b)
ToOrdinal(date) ==
    LET y == date.year - 1
    IN  365 * y + (y \div 4) - (y \div 100) + (y \div 400) + DayOfYear(date)

\* a date that is missing (pd.NaT)
NaT == Date(0, 0, 0)

\* a number in a column that can hold NaN
Num(n) == [num |-> n, den |-> 1]

----------------------------------------------------------------------------
(* find_freeze_dates *)

\* line 445 with < for <=
FreezeDaysStrict(metric, threshold) ==
    {i \in 1..Len(df) : df[i][metric] < threshold}

\* line 445: freeze_days = df[df[metric] <= threshold]
FreezeDays(metric, threshold) ==
    {i \in 1..Len(df) : df[i][metric] <= threshold}

\* lines 462-465 with the day of the last spring freeze counted in
GrowingDaysInclusive(last_spring, first_fall) ==
    IF last_spring # NaT /\ first_fall # NaT
    THEN Num(ToOrdinal(first_fall) - ToOrdinal(last_spring) + 1)
    ELSE NaN

\* lines 462-465
GrowingDays(last_spring, first_fall) ==
    IF last_spring # NaT /\ first_fall # NaT
    THEN Num(ToOrdinal(first_fall) - ToOrdinal(last_spring))
    ELSE NaN

\* the doy column over the rows idx
Doys(idx) == [k \in 1..Len(idx) |-> DayOfYear(df[idx[k]].DATE)]

\* lines 449-474: the row of one year
FreezeRow(year, metric, threshold) ==
    LET year_freezes == {i \in FreezeDays(metric, threshold) : df[i].DATE.year = year}
        spring       == {i \in year_freezes : df[i].DATE.month < 7}
        fall         == {i \in year_freezes : df[i].DATE.month >= 7}
        last_spring  == IF Cardinality(spring) > 0 THEN MaxDate(df, spring) ELSE NaT
        spring_doy   == IF Cardinality(spring) > 0
                        THEN Num(MaxSeq(Doys(Ascending(spring)))) ELSE NaN
        first_fall   == IF Cardinality(fall) > 0 THEN MinDate(df, fall) ELSE NaT
        fall_doy     == IF Cardinality(fall) > 0
                        THEN Num(MinSeq(Doys(Ascending(fall)))) ELSE NaN
    IN  [year                |-> year,
         last_spring_freeze  |-> last_spring,
         first_fall_freeze   |-> first_fall,
         growing_season_days |-> GrowingDays(last_spring, first_fall),
         spring_doy          |-> spring_doy,
         fall_doy            |-> fall_doy]

\* find_freeze_dates called with arguments from the sets given
FreezeCall(metrics, thresholds) ==
    /\ op = "idle"
    /\ \E metric \in metrics, threshold \in thresholds :
         LET years == Ascending({df[i].DATE.year : i \in 1..Len(df)})
         IN  /\ op' = "find_freeze_dates"
             /\ args' = [metric |-> metric, threshold |-> threshold]
             /\ aux' = <<>>
             /\ out' = [k \in 1..Len(years) |-> FreezeRow(years[k], metric, threshold)]
             /\ UNCHANGED df

----------------------------------------------------------------------------
(* find_extreme_event_frequency *)

\* lines 408-413: the frame with the year and meets_threshold columns
EventDf(metric, threshold, direction) ==
    [i \in 1..Len(df) |->
        [DATE |-> df[i].DATE, TMAX |-> df[i].TMAX, TMIN |-> df[i].TMIN,
         TAVG |-> df[i].TAVG,
         year |-> df[i].DATE.year,
         meets_threshold |->
             IF direction = "above" THEN df[i][metric] >= threshold
                                    ELSE df[i][metric] <= threshold]]

\* lines 415-423: one row per year, years ascending
EventStats(event_df) ==
    LET years == Ascending({event_df[i].year : i \in 1..Len(event_df)})
    IN  [g \in 1..Len(years) |->
            LET idx == {i \in 1..Len(event_df) : event_df[i].year = years[g]}
                met == {i \in idx : event_df[i].meets_threshold}
            IN  [year |-> years[g],
                 event_days |-> Cardinality(met),
                 total_days |-> Cardinality(idx),
                 percentage |-> Percentage(Cardinality(met), Cardinality(idx))]]

\* find_extreme_event_frequency called with arguments from the sets given
EventFrequencyCall(metrics, thresholds, directions) ==
    /\ op = "idle"
    /\ \E metric \in metrics, threshold \in thresholds, direction \in directions :
         LET event_df == EventDf(metric, threshold, direction)
         IN  /\ op' = "find_extreme_event_frequency"
             /\ args' = [metric |-> metric, threshold |-> threshold,
                         direction |-> direction]
             /\ aux' = event_df
             /\ out' = EventStats(event_df)
             /\ UNCHANGED df

----------------------------------------------------------------------------
(* calculate_daily_records and get_year_overlay_data *)

\* an argument that is not given (None); no month is 0
None == 0

\* a call that ends by raising the exception e returns no table
Raise(e) == [raised |-> e]

\* lines 549-550 and 611-612
Months == << "Jan", "Feb", "Mar", "Apr", "May", "Jun",
             "Jul", "Aug", "Sep", "Oct", "Nov", "Dec" >>

\* lines 557 and 621: the label "Jan 5" as the pair of its two parts
DateLabel(month, day) == <<Months[month], day>>

\* lines 535-547: the rows the optional range keeps
DailyMask(row, start_month, start_day, end_month, end_day) ==
    IF start_month # None /\ end_month # None
    THEN IF (start_month > end_month) \/ (start_month = end_month /\ start_day > end_day)
         THEN \/ row.month > start_month
              \/ (row.month = start_month /\ row.day >= start_day)
              \/ row.month < end_month
              \/ (row.month = end_month /\ row.day <= end_day)
         ELSE /\ (row.month > start_month \/ (row.month = start_month /\ row.day >= start_day))
              /\ (row.month < end_month \/ (row.month = end_month /\ row.day <= end_day))
    ELSE TRUE

\* lines 529-532 and 590-593: the copy of the series with the month, day and
\* day_of_year columns
WithCalendarColumns ==
    [i \in 1..Len(df) |->
        [DATE |-> df[i].DATE, TMAX |-> df[i].TMAX, TMIN |-> df[i].TMIN,
         TAVG |-> df[i].TAVG,
         month |-> df[i].DATE.month, day |-> df[i].DATE.day,
         day_of_year |-> DayOfYear(df[i].DATE)]]

\* lines 529-547
DailyDf(start_month, start_day, end_month, end_day) ==
    LET frame == WithCalendarColumns
    IN  Filter(frame,
               [i \in 1..Len(df) |->
                   DailyMask(frame[i], start_month, start_day, end_month, end_day)])

\* lines 552-557: one row per (month, day), in the order of (month, day);
\* day_of_year is that of the first row of the group, the earliest year's
DailyStats(frame, metric) ==
    LET keys == Ascending({100 * frame[i].month + frame[i].day : i \in 1..Len(frame)})
    IN  [g \in 1..Len(keys) |->
            LET idx == Ascending({i \in 1..Len(frame) :
                                    100 * frame[i].month + frame[i].day = keys[g]})
                v   == FieldOf(frame, idx, metric)
            IN  [month       |-> frame[idx[1]].month,
                 day         |-> frame[idx[1]].day,
                 record_high |-> MaxSeq(v),
                 record_low  |-> MinSeq(v),
                 avg_temp    |-> Mean(v),
                 day_of_year |-> frame[idx[1]].day_of_year,
                 date_label  |-> DateLabel(frame[idx[1]].month, frame[idx[1]].day)]]

\* lines 560-568 and 623-631: the plot_x of a row
PlotX(r, start_month, start_day, end_month, end_day) ==
    IF start_month # None /\ end_month # None
    THEN IF (start_month > end_month) \/ (start_month = end_month /\ start_day > end_day)
         THEN IF r.month <= end_month THEN r.day_of_year + 365 ELSE r.day_of_year
         ELSE r.day_of_year
    ELSE r.day_of_year

\* lines 570 and 633: sort_values('plot_x'), default kind; rows of equal
\* plot_x in any order
SortByPlotX(rows) ==
    { Take(rows, o) :
      o \in Orderings(1..Len(rows), [i \in 1..Len(rows) |-> 0 - rows[i].plot_x]) }

DailyColumns == << "month", "day", "record_high", "record_low", "avg_temp",
                   "day_of_year", "date_label", "plot_x" >>

\* calculate_daily_records called with a range of `ranges` (None four times
\* for no range) and a metric of `metrics`.  With no row left after the
\* filter, daily.apply(..., axis=1) of line 557 returns an empty frame, not
\* a column, and the assignment to daily['date_label'] raises ValueError
DailyRecordsCall(ranges, metrics) ==
    /\ op = "idle"
    /\ \E range \in ranges, metric \in metrics :
         LET start_month == range[1][1]
             start_day   == range[1][2]
             end_month   == range[2][1]
             end_day     == range[2][2]
             frame       == DailyDf(start_month, start_day, end_month, end_day)
             daily       == DailyStats(frame, metric)
             with_plot_x ==
                 [g \in 1..Len(daily) |->
                     [month |-> daily[g].month, day |-> daily[g].day,
                      record_high |-> daily[g].record_high,
                      record_low |-> daily[g].record_low,
                      avg_temp |-> daily[g].avg_temp,
                      day_of_year |-> daily[g].day_of_year,
                      date_label |-> daily[g].date_label,
                      plot_x |-> PlotX(daily[g], start_month, start_day,
                                       end_month, end_day)]]
         IN  /\ op' = "calculate_daily_records"
             /\ args' = [metric |-> metric,
                         start_month |-> start_month, start_day |-> start_day,
                         end_month |-> end_month, end_day |-> end_day]
             /\ aux' = frame
             /\ IF Len(daily) = 0
                THEN out' = Raise("ValueError")
                ELSE \E sorted \in SortByPlotX(with_plot_x) :
                        out' = [columns |-> DailyColumns, rows |-> sorted]
             /\ UNCHANGED df

\* line 595 left out: the rows of every year
OverlayDfEveryYear(year, start_month, start_day, end_month, end_day) ==
    LET frame == WithCalendarColumns
    IN  Filter(frame,
               [i \in 1..Len(df) |->
                   DailyMask(frame[i], start_month, start_day, end_month, end_day)])

\* lines 590-609: the rows of the year that the optional range keeps
OverlayDf(year, start_month, start_day, end_month, end_day) ==
    LET frame == WithCalendarColumns
    IN  Filter(frame,
               [i \in 1..Len(df) |->
                   /\ df[i].DATE.year = year
                   /\ DailyMask(frame[i], start_month, start_day, end_month, end_day)])

OverlayColumns == << "day_of_year", "month", "day", "temp", "date_label", "plot_x" >>

\* get_year_overlay_data called with arguments from the sets given; with no
\* row left the two last columns are added empty (lines 617-619) and the
\* result has no rows
OverlayCall(years, ranges, metrics) ==
    /\ op = "idle"
    /\ \E year \in years, range \in ranges, metric \in metrics :
         LET start_month == range[1][1]
             start_day   == range[1][2]
             end_month   == range[2][1]
             end_day     == range[2][2]
             frame       == OverlayDf(year, start_month, start_day, end_month, end_day)
             result ==
                 [k \in 1..Len(frame) |->
                     [day_of_year |-> frame[k].day_of_year,
                      month |-> frame[k].month, day |-> frame[k].day,
                      temp |-> frame[k][metric],
                      date_label |-> DateLabel(frame[k].month, frame[k].day),
                      plot_x |-> PlotX(frame[k], start_month, start_day,
                                       end_month, end_day)]]
         IN  /\ op' = "get_year_overlay_data"
             /\ args' = [year |-> year, metric |-> metric,
                         start_month |-> start_month, start_day |-> start_day,
                         end_month |-> end_month, end_day |-> end_day]
             /\ aux' = frame
             /\ \E sorted \in SortByPlotX(result) :
                    out' = [columns |-> OverlayColumns, rows |-> sorted]
             /\ UNCHANGED df

----------------------------------------------------------------------------
(* create_temperature_heatmap *)

\* sums, differences and means of exact quotients; a missing operand (NaN)
\* is skipped by a mean and makes a difference missing
RatAdd(a, b) == [num |-> a.num * b.den + b.num * a.den, den |-> a.den * b.den]

RatSub(a, b) ==
    IF a = NaN \/ b = NaN THEN NaN
    ELSE [num |-> a.num * b.den - b.num * a.den, den |-> a.den * b.den]

RECURSIVE RatSum(_)
RatSum(s) == IF s = <<>> THEN Num(0) ELSE RatAdd(Head(s), RatSum(Tail(s)))

RatMean(s) ==
    LET present == Filter(s, [i \in 1..Len(s) |-> s[i] # NaN])
    IN  IF present = <<>> THEN NaN
        ELSE [num |-> RatSum(present).num, den |-> RatSum(present).den * Len(present)]

\* lines 492-494: the copy of the series with the year and month columns
HeatmapDf ==
    [i \in 1..Len(df) |->
        [DATE |-> df[i].DATE, TMAX |-> df[i].TMAX, TMIN |-> df[i].TMIN,
         TAVG |-> df[i].TAVG,
         year |-> df[i].DATE.year, month |-> df[i].DATE.month]]

\* line 492 without .copy(): the columns are added to the series itself
SelfDfAliased(local) == local

\* line 492: the columns are added to a copy, the series is the frame it was
SelfDf(local) == df

\* lines 496-497: the mean of the metric per (year, month), years down and
\* months across; a month a year has no record of is missing
Pivot(frame, metric) ==
    LET years  == Ascending({frame[i].year : i \in 1..Len(frame)})
        months == Ascending({frame[i].month : i \in 1..Len(frame)})
    IN  [index   |-> years,
         columns |-> months,
         values  |->
             [y \in 1..Len(years) |->
                 [m \in 1..Len(months) |->
                     LET idx == Ascending({i \in 1..Len(frame) :
                                 frame[i].year = years[y] /\ frame[i].month = months[m]})
                     IN  IF idx = <<>> THEN NaN
                         ELSE Mean(FieldOf(frame, idx, metric))]]]

\* lines 503-505: each column less its mean over the years
Anomaly(pivot) ==
    LET long_term_means ==
            [m \in 1..Len(pivot.columns) |->
                RatMean([y \in 1..Len(pivot.index) |-> pivot.values[y][m]])]
    IN  [index   |-> pivot.index,
         columns |-> pivot.columns,
         values  |->
             [y \in 1..Len(pivot.index) |->
                 [m \in 1..Len(pivot.columns) |->
                     RatSub(pivot.values[y][m], long_term_means[m])]]]

\* create_temperature_heatmap called with arguments from the sets given
HeatmapCall(metrics, modes) ==
    /\ op = "idle"
    /\ \E metric \in metrics, mode \in modes :
         LET local  == HeatmapDf
             pivot  == Pivot(local, metric)
             named  == [index   |-> pivot.index,
                        columns |-> [m \in 1..Len(pivot.columns) |->
                                        Months[pivot.columns[m]]],
                        values  |-> pivot.values]
         IN  /\ op' = "create_temperature_heatmap"
             /\ args' = [metric |-> metric, mode |-> mode]
             /\ aux' = local
             /\ out' = IF mode = "anomaly" THEN Anomaly(named) ELSE named
             /\ df' = SelfDf(local)

----------------------------------------------------------------------------
(* TempAnalyzer.__init__ *)

\* line 17
REQUIRED_COLUMNS == << "DATE", "TMAX", "TMIN" >>

\* a CSV file as read by line 29: its header, and its rows as sequences of
\* cells in the order of the header.  A date cell is the <<year, month, day>>
\* of its text, a temperature cell is a number or is missing (NaN)
Cell(row, columns, name) ==
    row[CHOOSE c \in 1..Len(columns) : columns[c] = name]

\* line 33 left out: the columns keep the names of the file
RenameNothing(header, column_map) == header

\* line 33: rename(columns=column_map); a name the map has no entry for stays
Rename(header, column_map) ==
    [c \in 1..Len(header) |->
        IF header[c] \in DOMAIN column_map THEN column_map[header[c]] ELSE header[c]]

\* line 36: the required columns that are not among the renamed ones
MissingCols(columns) ==
    Filter(REQUIRED_COLUMNS,
           [r \in 1..Len(REQUIRED_COLUMNS) |->
               \A c \in 1..Len(columns) : columns[c] # REQUIRED_COLUMNS[r]])

\* lines 40-45
MissingColumnsError(missing_cols, columns) ==
    Raise([type |-> "ValueError", message |-> "Missing required columns",
           missing |-> missing_cols, available |-> columns])

\* line 60
NoValidDataError ==
    Raise([type |-> "ValueError",
           message |-> "No valid temperature data found after filtering out missing values."])

\* line 47: pd.to_datetime of a date cell
ToDatetime(cell) == Date(cell[1], cell[2], cell[3])

\* line 48: sort_values('DATE'), default kind; rows of one date in any order
SortByDate(rows, columns) ==
    { Take(rows, o) :
      o \in Orderings(1..Len(rows),
                      [i \in 1..Len(rows) |->
                          0 - ToOrdinal(ToDatetime(Cell(rows[i], columns, "DATE")))]) }

\* line 52 with subset=['TMAX']: a row without TMIN is kept
DropNaTMAXOnly(rows, columns) ==
    Filter(rows, [i \in 1..Len(rows) |-> Cell(rows[i], columns, "TMAX") # NaN])

\* line 52: dropna(subset=['TMAX', 'TMIN'])
DropNa(rows, columns) ==
    Filter(rows, [i \in 1..Len(rows) |->
                     /\ Cell(rows[i], columns, "TMAX") # NaN
                     /\ Cell(rows[i], columns, "TMIN") # NaN])

\* lines 65-66: TAVG is the column of the file when the file has one and no
\* kept row misses it, and (TMAX + TMIN) / 2 otherwise
WithTAVG(rows, columns) ==
    LET has == \E c \in 1..Len(columns) : columns[c] = "TAVG"
        own == has /\ \A i \in 1..Len(rows) : Cell(rows[i], columns, "TAVG") # NaN
    IN  [i \in 1..Len(rows) |->
            LET tmax == Cell(rows[i], columns, "TMAX").num
                tmin == Cell(rows[i], columns, "TMIN").num
            IN  [DATE |-> ToDatetime(Cell(rows[i], columns, "DATE")),
                 TMAX |-> tmax,
                 TMIN |-> tmin,
                 TAVG |-> IF own THEN Cell(rows[i], columns, "TAVG").num
                          ELSE (tmax + tmin) \div 2]]

\* the rows a file with the given header can have, each a sequence of cells
\* of `cells` in the order of the header
RECURSIVE RowsOf(_, _)
RowsOf(header, cells) ==
    IF header = <<>> THEN { <<>> }
    ELSE { <<c>> \o rest : c \in cells[Head(header)],
                           rest \in RowsOf(Tail(header), cells) }

\* TempAnalyzer(csv_path, column_map) on a file of up to max_rows rows under
\* a header of `headers`, and a map of `column_maps`: a raise leaves no
\* analyzer, a return leaves the series and the two counts
Construct(headers, cells, max_rows, column_maps) ==
    /\ op = "new"
    /\ \E header \in headers, n \in 0..max_rows, column_map \in column_maps :
       \E rows \in [1..n -> RowsOf(header, cells)] :
         LET csv          == [header |-> header, rows |-> rows]
             columns      == Rename(csv.header, column_map)
             missing_cols == MissingCols(columns)
         IN  /\ op' = "__init__"
             /\ args' = [csv |-> csv, column_map |-> column_map]
             /\ IF missing_cols # <<>>
                THEN /\ out' = MissingColumnsError(missing_cols, columns)
                     /\ aux' = <<>>
                     /\ UNCHANGED df
                ELSE \E sorted \in SortByDate(csv.rows, columns) :
                        LET kept == DropNa(sorted, columns)
                        IN  /\ aux' = sorted
                            /\ IF Len(kept) = 0
                               THEN /\ out' = NoValidDataError
                                    /\ UNCHANGED df
                               ELSE /\ out' = [original_count |-> Len(sorted),
                                               dropped_count  |-> Len(sorted) - Len(kept)]
                                    /\ df' = WithTAVG(kept, columns)

----------------------------------------------------------------------------
(* report functions: print_*_report of the CLI, render_*_analysis of the UI *)

\* what a report leaves behind: the number of table rows it printed and
\* whether it showed the "nothing found" warning instead
Report(printed, warned) == [printed |-> printed, warned |-> warned]

\* print_streak_report, print_period_report, print_season_report,
\* print_date_range_report: a header, then `for idx, row in X.iterrows()`
\* over the table the query `call` returned
PrintRows(call, report) ==
    /\ op = call
    /\ op' = report
    /\ out' = Report(Len(out), FALSE)
    /\ UNCHANGED <<df, args, aux>>

\* render_streak_analysis, render_period_analysis, render_seasonal_analysis,
\* render_date_range_analysis after their query: `if len(X) == 0:` a warning,
\* else the table
RenderRows(call, render) ==
    /\ op = call
    /\ op' = render
    /\ out' = Report(Len(out), Len(out) = 0)
    /\ UNCHANGED <<df, args, aux>>

\* int(x): ValueError for a NaN, the integer otherwise
IntRaises(x) == x = NaN

\* print_histogram_report: lines 727-728 format int(summary['min_days']) and
\* int(summary['max_days']) before the per-year bars are printed
print_histogram_report ==
    /\ op = "threshold_histogram"
    /\ op' = "print_histogram_report"
    /\ out' = IF IntRaises(out.summary.min_days) \/ IntRaises(out.summary.max_days)
              THEN Raise("ValueError")
              ELSE Report(Len(out.by_year), FALSE)
    /\ UNCHANGED <<df, args, aux>>

\* render_histogram_analysis after its query: st.metric("Min Days",
\* f"{int(summary['min_days'])}") and the same for max_days, with no test of
\* len(by_year) before them
render_histogram_analysis ==
    /\ op = "threshold_histogram"
    /\ op' = "render_histogram_analysis"
    /\ out' = IF IntRaises(out.summary.min_days) \/ IntRaises(out.summary.max_days)
              THEN Raise("ValueError")
              ELSE Report(Len(out.by_year), FALSE)
    /\ UNCHANGED <<df, args, aux>>

----------------------------------------------------------------------------
(* the trend of print_event_frequency_report and render_event_frequency_analysis *)

\* np.polyfit(freq_data['year'], freq_data['event_days'], 1)[0]: the slope of
\* the least-squares line as an exact quotient with a positive denominator.
\* The years of the table are distinct.  A table of one year is rank
\* deficient: polyfit scales the columns of [[year, 1]] to [[1, 1]], lstsq
\* returns the minimum-norm solution (y/2, y/2) and the slope is y/(2*year)
Polyfit(freq_data) ==
    LET n  == Len(freq_data)
        x  == [i \in 1..n |-> freq_data[i].year]
        y  == [i \in 1..n |-> freq_data[i].event_days]
        xy == [i \in 1..n |-> x[i] * y[i]]
        xx == [i \in 1..n |-> x[i] * x[i]]
    IN  IF n = 1
        THEN [num |-> y[1], den |-> 2 * x[1]]
        ELSE [num |-> n * SumSeq(xy) - SumSeq(x) * SumSeq(y),
              den |-> n * SumSeq(xx) - SumSeq(x) * SumSeq(x)]

\* abs(slope)
AbsSlope(slope) ==
    [num |-> IF slope.num < 0 THEN 0 - slope.num ELSE slope.num,
     den |-> slope.den]

\* the 0.05 of `abs(slope) < 0.05`
StableBelow == [num |-> 1, den |-> 20]

\* a trend that looks at the sign of the slope only
TrendDescBySign(slope) ==
    IF slope.num = 0 THEN "stable"
    ELSE IF slope.num > 0 THEN "increasing" ELSE "decreasing"

\* temp_analysis.py lines 764-769
TrendDesc(slope) ==
    IF MeanLT(AbsSlope(slope), StableBelow) THEN "stable"
    ELSE IF slope.num > 0 THEN "increasing" ELSE "decreasing"

\* app.py lines 574-579: the same tests, the labels capitalised
TrendDescUI(slope) ==
    IF MeanLT(AbsSlope(slope), StableBelow) THEN "Stable"
    ELSE IF slope.num > 0 THEN "Increasing" ELSE "Decreasing"

\* print_event_frequency_report on the table the query returned: the table
\* of a constructed series has a row, so idxmin and idxmax have one
print_event_frequency_report ==
    /\ op = "find_extreme_event_frequency"
    /\ op' = "print_event_frequency_report"
    /\ out' = LET slope == Polyfit(out)
              IN  [slope |-> slope, trend_desc |-> TrendDesc(slope)]
    /\ UNCHANGED <<df, args, aux>>

\* render_event_frequency_analysis after its query (the table is not empty,
\* so the `len(freq_data) == 0` return is not taken)
render_event_frequency_analysis ==
    /\ op = "find_extreme_event_frequency"
    /\ op' = "render_event_frequency_analysis"
    /\ out' = LET slope == Polyfit(out)
              IN  [slope |-> slope, trend_desc |-> TrendDescUI(slope)]
    /\ UNCHANGED <<df, args, aux>>

----------------------------------------------------------------------------
(* main: the --metric option of the command line and --freeze-dates *)

\* An element of sys.argv is a record: an option string written letter by
\* letter (flag), and the value that follows an '=' in the same element; a
\* plain value has the empty flag.  "--met=TMAX" is
\* [flag |-> <<"-","-","m","e","t">>, value |-> "TMAX"].
Option(flag, value) == [flag |-> flag, value |-> value]

\* line 955: '--metric'
MetricOption == << "-", "-", "m", "e", "t", "r", "i", "c" >>

\* the option strings of the parser that start with --m (lines 931, 955):
\* no other option string of lines 930-965 shares three letters with them
OptionStrings == { << "-", "-", "m", "a", "p" >>, MetricOption }

\* line 955: choices
MetricChoices == {"TMIN", "TMAX", "TAVG"}

IsPrefix(s, t) == Len(s) <= Len(t) /\ \A i \in 1..Len(s) : s[i] = t[i]

\* argparse, _parse_optional: the option string itself, else (allow_abbrev)
\* every option string it is a prefix of
OptionMatches(flag) ==
    IF flag \in OptionStrings THEN {flag}
    ELSE {o \in OptionStrings : IsPrefix(flag, o)}

\* parser.parse_args() on a command line whose only option besides
\* --freeze-dates is one spelling of --metric, or none: parser.error (an
\* ambiguous option, a missing argument, an invalid choice) or args.metric,
\* 'TMAX' by default
ParseArgs(argv) ==
    IF argv = <<>> THEN [error |-> FALSE, metric |-> "TMAX"]
    ELSE LET matches == OptionMatches(argv[1].flag)
             value   == IF argv[1].value # "" THEN argv[1].value
                        ELSE IF Len(argv) >= 2 THEN argv[2].value ELSE ""
         IN  IF matches # {MetricOption} \/ value \notin MetricChoices
             THEN [error |-> TRUE, metric |-> ""]
             ELSE [error |-> FALSE, metric |-> value]

\* line 1080: '--metric' in sys.argv
MetricInArgv(argv) ==
    \E i \in 1..Len(argv) : argv[i] = Option(MetricOption, "")

\* line 1078: the threshold when --threshold is not given
DefaultFreezeThreshold == 32

\* lines 967 and 1077-1086: the command line is parsed, then --freeze-dates
\* calls find_freeze_dates with the metric line 1080 chooses
FreezeDatesMain(argvs) ==
    /\ op = "idle"
    /\ \E argv \in argvs :
         LET parsed == ParseArgs(argv)
             freeze_metric == IF MetricInArgv(argv) THEN parsed.metric ELSE "TMIN"
             years == Ascending({df[i].DATE.year : i \in 1..Len(df)})
         IN  IF parsed.error
             THEN /\ op' = "parser.error"
                  /\ args' = [argv |-> argv]
                  /\ out' = Raise("SystemExit")
                  /\ UNCHANGED <<df, aux>>
             ELSE /\ op' = "find_freeze_dates"
                  /\ args' = [argv |-> argv, metric |-> freeze_metric,
                              threshold |-> DefaultFreezeThreshold]
                  /\ out' = [k \in 1..Len(years) |->
                                FreezeRow(years[k], freeze_metric,
                                          DefaultFreezeThreshold)]
                  /\ UNCHANGED <<df, aux>>

----------------------------------------------------------------------------
(* Properties of find_streaks *)

\* row i satisfies the predicate of the call in args
Meets(i) ==
    IF args.direction = "above" THEN df[i][args.metric] >= args.threshold
                                ELSE df[i][args.metric] <= args.threshold

\* rows a..b are a maximal run of rows that satisfy the predicate
MaximalRun(a, b) ==
    /\ a <= b
    /\ \A i \in a..b : Meets(i)
    /\ a > 1 => ~Meets(a - 1)
    /\ b < Len(df) => ~Meets(b + 1)

\* C1: every streak find_streaks returns is a maximal run of row-adjacent
\* records: its rows all satisfy the predicate, the row before its start and
\* the row after its end (when they exist) do not, and its length is the
\* number of its rows.
C1_StreaksAreMaximalRuns ==
    op = "find_streaks" =>
        \A k \in 1..Len(out) :
            \E a, b \in 1..Len(df) :
                /\ MaximalRun(a, b)
                /\ df[a].DATE = out[k].start_date
                /\ df[b].DATE = out[k].end_date
                /\ out[k].length = b - a + 1

\* a returned streak of two rows or more with a row before and a row after it
C1_Witness ==
    /\ op = "find_streaks"
    /\ \E k \in 1..Len(out) :
           /\ out[k].length >= 2
           /\ out[k].start_date # df[1].DATE
           /\ out[k].end_date # df[Len(df)].DATE

\* the length of the longest maximal qualifying run of the series
LongestRun ==
    LET lens == {b - a + 1 : <<a, b>> \in
                    {p \in (1..Len(df)) \X (1..Len(df)) : MaximalRun(p[1], p[2])}}
    IN  CHOOSE m \in lens : \A x \in lens : m >= x

\* C5: for top_n >= 1 the returned lengths never increase down the rows, and
\* when some row satisfies the predicate the first streak is as long as the
\* longest maximal qualifying run of the series.
C5_LengthsDescendLongestFirst ==
    (op = "find_streaks" /\ args.top_n >= 1) =>
        /\ \A k \in 1..(Len(out) - 1) : out[k].length >= out[k + 1].length
        /\ (\E i \in 1..Len(df) : Meets(i)) =>
               (Len(out) >= 1 /\ out[1].length = LongestRun)

\* two streaks of different lengths returned, the longer one not the first run
C5_Witness ==
    /\ op = "find_streaks"
    /\ Len(out) >= 2
    /\ out[1].length > out[2].length
    /\ DateLT(out[2].start_date, out[1].start_date)

\* run r ranks before run s in the stable descending order: longer, or as
\* long and earlier in the series
StableBefore(r, s) ==
    \/ r.length > s.length
    \/ r.length = s.length /\ DateLT(r.start_date, s.start_date)

----------------------------------------------------------------------------
(* Properties of find_extreme_periods *)

\* the row of the series that carries a date (dates are unique)
RowOf(date) == CHOOSE i \in 1..Len(df) : df[i].DATE = date

\* the rows of the window of n_days rows that ends at row e
WindowRows(e) == (e - args.n_days + 1)..e

\* the last row, and the rows, of the k-th returned window
EndRow(k) == RowOf(out[k].end_date)
Window(k) == WindowRows(EndRow(k))

\* the rows at which a window of n_days consecutive rows ends
WindowEnds == {e \in 1..Len(df) : e - args.n_days + 1 >= 1}

RECURSIVE SumOver(_)
SumOver(S) ==
    IF S = {} THEN 0
    ELSE LET i == CHOOSE x \in S : TRUE
         IN  df[i][args.metric] + SumOver(S \ {i})

\* the mean of the metric over the window that ends at row e
WindowMean(e) == [num |-> SumOver(WindowRows(e)), den |-> args.n_days]

\* window mean x is at least as extreme as y in the direction asked for
AsExtreme(x, y) ==
    IF args.extreme = "coldest" THEN MeanLE(x, y) ELSE MeanLE(y, x)

\* C2: no two windows find_extreme_periods returns share a row: the row
\* intervals [end - n_days + 1, end] of any two returned windows are disjoint.
C2_WindowsDisjoint ==
    op = "find_extreme_periods" =>
        \A k, l \in 1..Len(out) :
            k # l => Window(k) \cap Window(l) = {}

\* two windows of two rows or more returned, after a better-ranked candidate
\* that overlaps the first was passed over
C2_Witness ==
    /\ op = "find_extreme_periods"
    /\ args.n_days >= 2
    /\ Len(out) >= 2
    /\ \E p, q \in 1..Len(aux) :
           /\ p < q
           /\ aux[q] = EndRow(2)
           /\ WindowRows(aux[p]) \cap Window(1) # {}
           /\ aux[p] # EndRow(1)

\* aux, the ranking the selection ran over, lists every window end once, by
\* rolling mean in the direction asked for
IsRanking ==
    /\ {aux[p] : p \in 1..Len(aux)} = WindowEnds
    /\ Len(aux) = Cardinality(WindowEnds)
    /\ \A p, q \in 1..Len(aux) :
           p < q => AsExtreme(WindowMean(aux[p]), WindowMean(aux[q]))

\* the k-th returned window is the best-ranked candidate that overlaps none
\* of the k-1 windows returned before it
GreedyInRankOrder ==
    \A k \in 1..Len(out) :
        LET free == {p \in 1..Len(aux) :
                        \A l \in 1..(k - 1) :
                            WindowRows(aux[p]) \cap Window(l) = {}}
        IN  /\ out[k].start_date = df[EndRow(k) - args.n_days + 1].DATE
            /\ \E p \in free : aux[p] = EndRow(k) /\ \A q \in free : p <= q

\* every window that was not selected overlaps one that was
Exhausted ==
    \A e \in WindowEnds :
        (\A k \in 1..Len(out) : EndRow(k) # e) =>
            \E k \in 1..Len(out) : WindowRows(e) \cap Window(k) # {}

\* C7: find_extreme_periods returns the first top_n windows of the greedy
\* selection over the candidates ranked by rolling mean; for every top_n >= 0
\* it returns at most top_n rows, and fewer only when every unselected window
\* overlaps a selected one.
C7_GreedyPrefix ==
    op = "find_extreme_periods" =>
        /\ IsRanking
        /\ GreedyInRankOrder
        /\ Len(out) <= args.top_n
        /\ Len(out) < args.top_n => Exhausted

\* what C7 states, for the calls with top_n >= 1
C7_GreedyPrefixFromOne ==
    (op = "find_extreme_periods" /\ args.top_n >= 1) =>
        /\ IsRanking
        /\ GreedyInRankOrder
        /\ Len(out) <= args.top_n
        /\ Len(out) < args.top_n => Exhausted

\* C8: when the series has n_days rows or more and top_n >= 1, the first
\* window returned is a window of n_days consecutive rows whose mean is the
\* minimum ('coldest') or maximum ('warmest') over all such windows.
C8_FirstWindowIsExtreme ==
    (/\ op = "find_extreme_periods"
     /\ Len(df) >= args.n_days
     /\ args.top_n >= 1) =>
        /\ Len(out) >= 1
        /\ EndRow(1) \in WindowEnds
        /\ out[1].start_date = df[EndRow(1) - args.n_days + 1].DATE
        /\ MeanEQ(out[1].avg_temp, WindowMean(EndRow(1)))
        /\ \A e \in WindowEnds : AsExtreme(out[1].avg_temp, WindowMean(e))

\* a warmest query whose first window is neither the first nor the last
\* window of the series and is strictly warmer than another window
C8_Witness ==
    /\ op = "find_extreme_periods"
    /\ args.extreme = "warmest"
    /\ args.top_n >= 1
    /\ args.n_days >= 2
    /\ Len(out) >= 1
    /\ EndRow(1) > args.n_days
    /\ EndRow(1) < Len(df)
    /\ \E e \in WindowEnds : MeanLT(WindowMean(e), out[1].avg_temp)

----------------------------------------------------------------------------
(* Properties of the calendar-range queries *)

\* the <<month, day>> of row i of the series
MD(i) == <<df[i].DATE.month, df[i].DATE.day>>

\* lexicographic order of <<month, day>> pairs
LexLE(a, b) == a[1] < b[1] \/ (a[1] = b[1] /\ a[2] <= b[2])

RangeStart == <<args.start_month, args.start_day>>
RangeEnd == <<args.end_month, args.end_day>>

\* the range of the call spans a year boundary
Spanning ==
    \/ args.start_month > args.end_month
    \/ args.start_month = args.end_month /\ args.start_day > args.end_day

\* row i of the series is in range_df, and the range_year it has there
InRangeDf(i) == \E j \in 1..Len(aux) : aux[j].DATE = df[i].DATE
RangeYearOf(i) ==
    aux[CHOOSE j \in 1..Len(aux) : aux[j].DATE = df[i].DATE].range_year

\* C3: for a year-spanning range, in find_extreme_date_range and in
\* threshold_histogram, a record matches iff its (month, day) is >= the start
\* or <= the end; a matching record at or after the start gets its calendar
\* year as range_year and every other matching record its calendar year - 1.
C3_SpanningRange ==
    (op \in {"find_extreme_date_range", "threshold_histogram"} /\ Spanning) =>
        \A i \in 1..Len(df) :
            /\ InRangeDf(i) <=> (LexLE(RangeStart, MD(i)) \/ LexLE(MD(i), RangeEnd))
            /\ InRangeDf(i) =>
                   RangeYearOf(i) = IF LexLE(RangeStart, MD(i))
                                    THEN df[i].DATE.year
                                    ELSE df[i].DATE.year - 1

\* Dec 31 2020 and Jan 5 2021 against Dec 20 - Jan 10: one bucket, 2020
C3_Witness ==
    /\ op = "find_extreme_date_range"
    /\ RangeStart = <<12, 20>>
    /\ RangeEnd = <<1, 10>>
    /\ Len(df) = 2
    /\ df[1].DATE = Date(2020, 12, 31)
    /\ df[2].DATE = Date(2021, 1, 5)
    /\ Len(aux) = 2
    /\ aux[1].range_year = 2020
    /\ aux[2].range_year = 2020
    /\ Len(out) = 1
    /\ out[1].year = 2020
    /\ out[1].days = 2

\* C4: for a range that does not span, a record matches iff start <=
\* (month, day) <= end lexicographically, both ends included, and its
\* range_year is its calendar year; an endpoint that is no real date only
\* bounds the comparison.
C4_SameYearRange ==
    (op = "find_extreme_date_range" /\ ~Spanning) =>
        \A i \in 1..Len(df) :
            /\ InRangeDf(i) <=> (LexLE(RangeStart, MD(i)) /\ LexLE(MD(i), RangeEnd))
            /\ InRangeDf(i) => RangeYearOf(i) = df[i].DATE.year

\* Feb 30 - Mar 1 against Feb 29 2020 and Mar 1 2021: the call returns, Feb
\* 29 is out of range and Mar 1, the end day, is in
C4_Witness ==
    /\ op = "find_extreme_date_range"
    /\ RangeStart = <<2, 30>>
    /\ RangeEnd = <<3, 1>>
    /\ Len(df) = 2
    /\ df[1].DATE = Date(2020, 2, 29)
    /\ df[2].DATE = Date(2021, 3, 1)
    /\ Len(aux) = 1
    /\ aux[1].DATE = Date(2021, 3, 1)
    /\ Len(out) = 1
    /\ out[1].year = 2021

\* the calendar's (month, day) values, Feb 29 among them, and the steps of
\* one day through them, cyclically
DaysIn(m) == IF m = 2 THEN 29 ELSE IF m \in {4, 6, 9, 11} THEN 30 ELSE 31
CalendarMDs == {md \in (1..12) \X (1..31) : md[2] <= DaysIn(md[1])}
NextMD(md) ==
    IF md[2] < DaysIn(md[1]) THEN <<md[1], md[2] + 1>>
    ELSE IF md[1] = 12 THEN <<1, 1>> ELSE <<md[1] + 1, 1>>
PrevMD(md) ==
    IF md[2] > 1 THEN <<md[1], md[2] - 1>>
    ELSE IF md[1] = 1 THEN <<12, 31>> ELSE <<md[1] - 1, DaysIn(md[1] - 1)>>

\* row i of the series matches the complementary range (B + 1 day, A - 1 day)
\* of the range (A, B) of the call
MatchesComplement(i) ==
    DateRangeMask(df[i], NextMD(RangeEnd)[1], NextMD(RangeEnd)[2],
                         PrevMD(RangeStart)[1], PrevMD(RangeStart)[2])

\* C9 as stated: for every range (A, B) that does not span, a record matches
\* (A, B) iff it does not match the complementary range (B + 1 day, A - 1 day).
C9_ComplementEveryRange ==
    (/\ op = "find_extreme_date_range"
     /\ ~Spanning
     /\ RangeStart \in CalendarMDs
     /\ RangeEnd \in CalendarMDs) =>
        \A i \in 1..Len(df) : InRangeDf(i) <=> ~MatchesComplement(i)

\* C9: for every range (A, B) of calendar days that does not span, other
\* than the whole year Jan 1 - Dec 31, a record matches (A, B) iff it does
\* not match the complementary range (B + 1 day, A - 1 day).
C9_ComplementExceptWholeYear ==
    (/\ op = "find_extreme_date_range"
     /\ ~Spanning
     /\ RangeStart \in CalendarMDs
     /\ RangeEnd \in CalendarMDs
     /\ ~(RangeStart = <<1, 1>> /\ RangeEnd = <<12, 31>>)) =>
        \A i \in 1..Len(df) : InRangeDf(i) <=> ~MatchesComplement(i)

\* Mar 1 - Jun 15, whose complement Jun 16 - Feb 29 spans the year: the leap
\* day matches the complement only, Jun 15 the range only
C9_Witness ==
    /\ op = "find_extreme_date_range"
    /\ RangeStart = <<3, 1>>
    /\ RangeEnd = <<6, 15>>
    /\ Len(df) = 2
    /\ df[1].DATE = Date(2020, 2, 29)
    /\ df[2].DATE = Date(2020, 6, 15)
    /\ MatchesComplement(1) /\ ~InRangeDf(1)
    /\ InRangeDf(2) /\ ~MatchesComplement(2)

----------------------------------------------------------------------------
(* Properties of find_extreme_seasons *)

\* the season of a month and the season_year of a date, as specified
SeasonOfMonth(m) ==
    IF m \in {12, 1, 2} THEN "winter"
    ELSE IF m \in {3, 4, 5} THEN "spring"
    ELSE IF m \in {6, 7, 8} THEN "summer"
    ELSE "fall"

SeasonYearOf(date) == IF date.month = 12 THEN date.year + 1 ELSE date.year

\* the rows of the series in the season asked for, with season_year y
SeasonMembers(y) ==
    {i \in 1..Len(df) : /\ SeasonOfMonth(df[i].DATE.month) = args.season
                         /\ SeasonYearOf(df[i].DATE) = y}

\* C10: find_extreme_seasons gives every record one season by its month
\* (winter = Dec, Jan, Feb; spring = Mar-May; summer = Jun-Aug; fall =
\* Sep-Nov) and season_year = year + 1 for December, the year otherwise; each
\* returned group counts its records and spans their earliest and latest
\* dates.
C10_SeasonGroups ==
    op = "find_extreme_seasons" =>
        /\ Len(aux) = Len(df)
        /\ \A i \in 1..Len(df) :
               /\ aux[i].DATE = df[i].DATE
               /\ aux[i].season = SeasonOfMonth(df[i].DATE.month)
               /\ aux[i].season_year = SeasonYearOf(df[i].DATE)
        /\ \A k, l \in 1..Len(out) :
               k # l => out[k].season_year # out[l].season_year
        /\ \A k \in 1..Len(out) :
               LET members == SeasonMembers(out[k].season_year)
               IN  /\ members # {}
                   /\ out[k].days = Cardinality(members)
                   /\ \E i \in members : df[i].DATE = out[k].start_date
                   /\ \E i \in members : df[i].DATE = out[k].end_date
                   /\ \A i \in members :
                          /\ DateLE(out[k].start_date, df[i].DATE)
                          /\ DateLE(df[i].DATE, out[k].end_date)

\* the winter of 2021: a December record of 2020 grouped with January and
\* February records of 2021
C10_Witness ==
    /\ op = "find_extreme_seasons"
    /\ args.season = "winter"
    /\ \E k \in 1..Len(out) :
           /\ out[k].season_year = 2021
           /\ out[k].days = 3
           /\ out[k].start_date.year = 2020
           /\ out[k].start_date.month = 12
           /\ out[k].end_date = Date(2021, 2, 10)

----------------------------------------------------------------------------
(* Properties of the group rankings *)

\* the keys of the groups of the call: the season_years that have a record
\* in the season asked for, or the range_years that have a record in range
GroupKeys ==
    IF op = "find_extreme_seasons"
    THEN {SeasonYearOf(df[i].DATE) :
             i \in {i \in 1..Len(df) :
                        SeasonOfMonth(df[i].DATE.month) = args.season}}
    ELSE {RangeYearOf(i) : i \in {i \in 1..Len(df) : InRangeDf(i)}}

\* the rows of the series in the group with key y
GroupMembers(y) ==
    IF op = "find_extreme_seasons"
    THEN SeasonMembers(y)
    ELSE {i \in 1..Len(df) : InRangeDf(i) /\ RangeYearOf(i) = y}

\* the mean of the metric over the group with key y
GroupMean(y) ==
    [num |-> SumOver(GroupMembers(y)), den |-> Cardinality(GroupMembers(y))]

\* the key of the k-th returned group
KeyOf(k) ==
    IF op = "find_extreme_seasons" THEN out[k].season_year ELSE out[k].year

\* C11: find_extreme_seasons and find_extreme_date_range return the groups
\* ranked by mean, ascending for 'coldest' and descending for 'warmest', cut
\* to top_n: min(top_n, number of groups) rows, avg_temp monotone down the
\* rows, and no omitted group strictly more extreme than a returned one.
C11_GroupsRankedByMean ==
    op \in {"find_extreme_seasons", "find_extreme_date_range"} =>
        /\ Len(out) = (IF args.top_n < Cardinality(GroupKeys)
                       THEN args.top_n ELSE Cardinality(GroupKeys))
        /\ \A k \in 1..Len(out) :
               /\ KeyOf(k) \in GroupKeys
               /\ MeanEQ(out[k].avg_temp, GroupMean(KeyOf(k)))
        /\ \A k, l \in 1..Len(out) : k # l => KeyOf(k) # KeyOf(l)
        /\ \A k \in 1..(Len(out) - 1) :
               AsExtreme(out[k].avg_temp, out[k + 1].avg_temp)
        /\ \A y \in GroupKeys :
               (\A k \in 1..Len(out) : KeyOf(k) # y) =>
                   \A k \in 1..Len(out) :
                       AsExtreme(out[k].avg_temp, GroupMean(y))

\* the two coldest of three groups, of different means, the third warmer
C11_Witness ==
    /\ op \in {"find_extreme_seasons", "find_extreme_date_range"}
    /\ args.extreme = "coldest"
    /\ args.top_n = 2
    /\ Len(out) = 2
    /\ MeanLT(out[1].avg_temp, out[2].avg_temp)
    /\ \E y \in GroupKeys :
           /\ \A k \in 1..Len(out) : KeyOf(k) # y
           /\ MeanLT(out[2].avg_temp, GroupMean(y))

----------------------------------------------------------------------------
(* Properties of find_freeze_dates *)

\* the years that have a record
YearsPresent == {df[i].DATE.year : i \in 1..Len(df)}

\* the dates of year y at or below the threshold, before July and from July on
SpringFreezes(y) ==
    {df[i].DATE : i \in {i \in 1..Len(df) :
        df[i].DATE.year = y /\ df[i][args.metric] <= args.threshold
                            /\ df[i].DATE.month < 7}}

FallFreezes(y) ==
    {df[i].DATE : i \in {i \in 1..Len(df) :
        df[i].DATE.year = y /\ df[i][args.metric] <= args.threshold
                            /\ df[i].DATE.month >= 7}}

\* d is the latest (earliest) date of the set S
LatestOf(d, S) == d \in S /\ \A e \in S : DateLE(e, d)
EarliestOf(d, S) == d \in S /\ \A e \in S : DateLE(d, e)

\* C12: find_freeze_dates returns exactly one row per calendar year that has
\* a record, years ascending; last_spring_freeze is the latest date of the
\* year at or below the threshold with month < 7 and first_fall_freeze the
\* earliest with month >= 7, each missing when there is none; spring_doy and
\* fall_doy are the days of year of those same dates, missing exactly when
\* the date is missing.  Each row is a function of its own year's records.
C12_FreezeDatesPerYear ==
    op = "find_freeze_dates" =>
        /\ {out[k].year : k \in 1..Len(out)} = YearsPresent
        /\ \A k, l \in 1..Len(out) : k < l => out[k].year < out[l].year
        /\ \A k \in 1..Len(out) :
             LET r == out[k]
             IN  /\ IF SpringFreezes(r.year) = {}
                    THEN r.last_spring_freeze = NaT
                    ELSE LatestOf(r.last_spring_freeze, SpringFreezes(r.year))
                 /\ IF FallFreezes(r.year) = {}
                    THEN r.first_fall_freeze = NaT
                    ELSE EarliestOf(r.first_fall_freeze, FallFreezes(r.year))
                 /\ r.spring_doy = (IF r.last_spring_freeze = NaT THEN NaN
                                    ELSE Num(DayOfYear(r.last_spring_freeze)))
                 /\ r.fall_doy = (IF r.first_fall_freeze = NaT THEN NaN
                                  ELSE Num(DayOfYear(r.first_fall_freeze)))

\* two years: a leap year with two spring freezes and no fall freeze, then a
\* year with a fall freeze only
C12_Witness ==
    /\ op = "find_freeze_dates"
    /\ Len(out) = 2
    /\ Cardinality(SpringFreezes(out[1].year)) = 2
    /\ out[1].last_spring_freeze = Date(2020, 6, 30)
    /\ out[1].spring_doy = Num(182)
    /\ out[1].first_fall_freeze = NaT
    /\ out[1].fall_doy = NaN
    /\ out[2].last_spring_freeze = NaT
    /\ out[2].first_fall_freeze = Date(2021, 7, 1)
    /\ out[2].fall_doy = Num(182)

\* the calendar days from date a on, before date b, both of year y
DaysFromTo(a, b, y) ==
    {md \in (1..12) \X (1..31) :
        /\ md[2] <= DaysInMonth(y, md[1])
        /\ DateLE(a, Date(y, md[1], md[2]))
        /\ DateLT(Date(y, md[1], md[2]), b)}

\* C13: growing_season_days is defined exactly when both freeze dates of the
\* row are; when defined it is not negative and is the number of days from
\* last_spring_freeze to first_fall_freeze.
C13_GrowingSeasonDays ==
    op = "find_freeze_dates" =>
        \A k \in 1..Len(out) :
            LET r == out[k]
            IN  IF r.last_spring_freeze = NaT \/ r.first_fall_freeze = NaT
                THEN r.growing_season_days = NaN
                ELSE /\ r.growing_season_days # NaN
                     /\ r.growing_season_days.den = 1
                     /\ r.growing_season_days.num >= 0
                     /\ r.growing_season_days.num =
                            Cardinality(DaysFromTo(r.last_spring_freeze,
                                                   r.first_fall_freeze, r.year))

\* a growing season across a leap day's year next to a year without one
C13_Witness ==
    /\ op = "find_freeze_dates"
    /\ Len(out) = 2
    /\ out[1].last_spring_freeze = Date(2020, 2, 29)
    /\ out[1].first_fall_freeze = Date(2020, 12, 31)
    /\ out[1].growing_season_days = Num(306)
    /\ out[2].first_fall_freeze # NaT
    /\ out[2].growing_season_days = NaN

----------------------------------------------------------------------------
(* Properties of the per-year counts *)

\* the per-year rows of the result, and the count of days meeting the
\* threshold in one of them
YearRows == IF op = "threshold_histogram" THEN out.by_year ELSE out

DaysMeeting(r) ==
    IF op = "threshold_histogram" THEN r.days_meeting_threshold ELSE r.event_days

\* C14: in every per-year row of threshold_histogram and of
\* find_extreme_event_frequency the count of days meeting the threshold is
\* between 0 and total_days, total_days is at least 1, and the percentage
\* is between 0 and 100.
C14_CountsWithinTotals ==
    op \in {"threshold_histogram", "find_extreme_event_frequency"} =>
        \A k \in 1..Len(YearRows) :
            LET r == YearRows[k]
            IN  /\ 0 <= DaysMeeting(r)
                /\ DaysMeeting(r) <= r.total_days
                /\ r.total_days >= 1
                /\ MeanLE(Num(0), r.percentage)
                /\ MeanLE(r.percentage, Num(100))

\* a range of three days across a new year, one of them meeting the
\* threshold: 33.3 percent
C14_Witness ==
    /\ op = "threshold_histogram"
    /\ args.start_month > args.end_month
    /\ \E k \in 1..Len(YearRows) :
         /\ DaysMeeting(YearRows[k]) = 1
         /\ YearRows[k].total_days = 3
         /\ YearRows[k].percentage = [num |-> 333, den |-> 10]

----------------------------------------------------------------------------
(* Properties of calculate_daily_records and get_year_overlay_data *)

\* the call ended by raising
Raised == "raised" \in DOMAIN out

\* the call was given a range
RangeGiven == args.start_month # None /\ args.end_month # None

\* row i of the series matches the optional range of the call
Passes(i) ==
    IF ~RangeGiven THEN TRUE
    ELSE IF Spanning THEN LexLE(RangeStart, MD(i)) \/ LexLE(MD(i), RangeEnd)
    ELSE LexLE(RangeStart, MD(i)) /\ LexLE(MD(i), RangeEnd)

\* the rows of the series on calendar day md that match the range
RecordsOfDay(md) == {i \in 1..Len(df) : Passes(i) /\ MD(i) = md}

\* the <<month, day>> of a result row
RowMD(r) == <<r.month, r.day>>

\* C15 (as claimed): calculate_daily_records returns exactly one row per
\* distinct (month, day) among the records that match the optional range;
\* record_high is the maximum, record_low the minimum and avg_temp the mean
\* of the metric over all years' records of that calendar day, so that
\* record_low <= avg_temp <= record_high.
C15_OneRowPerCalendarDay ==
    op = "calculate_daily_records" =>
        /\ ~Raised
        /\ {RowMD(out.rows[k]) : k \in 1..Len(out.rows)}
               = {MD(i) : i \in {i \in 1..Len(df) : Passes(i)}}
        /\ \A k, l \in 1..Len(out.rows) :
               RowMD(out.rows[k]) = RowMD(out.rows[l]) => k = l
        /\ \A k \in 1..Len(out.rows) :
             LET r == out.rows[k]
                 S == RecordsOfDay(RowMD(r))
             IN  /\ \E i \in S : df[i][args.metric] = r.record_high
                 /\ \A i \in S : df[i][args.metric] <= r.record_high
                 /\ \E i \in S : df[i][args.metric] = r.record_low
                 /\ \A i \in S : df[i][args.metric] >= r.record_low
                 /\ MeanEQ(r.avg_temp, [num |-> SumOver(S), den |-> Cardinality(S)])
                 /\ MeanLE(Num(r.record_low), r.avg_temp)
                 /\ MeanLE(r.avg_temp, Num(r.record_high))

\* the same for the calls in which some record matches the range
C15_OneRowPerCalendarDayWhenSomeMatch ==
    (op = "calculate_daily_records" /\ \E i \in 1..Len(df) : Passes(i)) =>
        C15_OneRowPerCalendarDay

\* no record matches the range and the call raises
C15_RaisesWhenNoneMatch ==
    /\ op = "calculate_daily_records"
    /\ \A i \in 1..Len(df) : ~Passes(i)
    /\ Raised

\* C16 (as claimed): in both methods, for a range that spans the year
\* boundary a row has plot_x = day_of_year + 365 iff its (month, day) is at
\* or before the end of the range and plot_x = day_of_year iff it is in the
\* start portion; with a range that does not span, or none, plot_x =
\* day_of_year.  Spanning ranges with start_month = end_month included.
C16_PlotXShiftsAfterNewYear ==
    (op \in {"calculate_daily_records", "get_year_overlay_data"} /\ ~Raised) =>
        \A k \in 1..Len(out.rows) :
            LET r == out.rows[k]
            IN  r.plot_x = IF RangeGiven /\ Spanning /\ LexLE(RowMD(r), RangeEnd)
                           THEN r.day_of_year + 365
                           ELSE r.day_of_year

\* the same for the ranges whose start and end months differ
C16_PlotXShiftsWhenMonthsDiffer ==
    (/\ op \in {"calculate_daily_records", "get_year_overlay_data"}
     /\ args.start_month # args.end_month) => C16_PlotXShiftsAfterNewYear

\* a <<month, day>> in the start portion of the spanning range
InStartPortion(md) == LexLE(RangeStart, md)

\* calendar day a is plotted before calendar day b: in calendar order within
\* a portion, the start portion before the after-new-year portion
PlottedBefore(a, b) ==
    IF RangeGiven /\ Spanning /\ InStartPortion(a) # InStartPortion(b)
    THEN InStartPortion(a)
    ELSE LexLE(a, b) /\ a # b

\* C17 (as claimed): the rows calculate_daily_records returns have strictly
\* increasing plot_x, so no two calendar days share a plot_x, and they are
\* in calendar order within each portion of the range, the start portion
\* before the after-new-year portion; for every series and every range.
C17_PlotXStrictlyIncreasing ==
    (op = "calculate_daily_records" /\ ~Raised) =>
        \A k, l \in 1..Len(out.rows) :
            k < l => /\ out.rows[k].plot_x < out.rows[l].plot_x
                     /\ PlottedBefore(RowMD(out.rows[k]), RowMD(out.rows[l]))

\* C18: get_year_overlay_data(year, ...) returns exactly one row per record
\* of that year that matches the optional range, with the record's own value
\* of the metric as temp; when no record qualifies it returns, without
\* raising, a table of no rows with the columns it always has.
C18_OverlayRowsAreTheYearsRecords ==
    op = "get_year_overlay_data" =>
        LET qualifies == {i \in 1..Len(df) : df[i].DATE.year = args.year /\ Passes(i)}
        IN  /\ ~Raised
            /\ out.columns = << "day_of_year", "month", "day", "temp",
                                "date_label", "plot_x" >>
            /\ Len(out.rows) = Cardinality(qualifies)
            /\ \A i \in qualifies :
                   \E k \in 1..Len(out.rows) :
                       /\ RowMD(out.rows[k]) = MD(i)
                       /\ out.rows[k].temp = df[i][args.metric]
                       /\ out.rows[k].day_of_year = DayOfYear(df[i].DATE)
            /\ \A k, l \in 1..Len(out.rows) :
                   RowMD(out.rows[k]) = RowMD(out.rows[l]) => k = l

\* a year with two records in a spanning range and a record of another year
\* in the range left out
C18_Witness ==
    /\ op = "get_year_overlay_data"
    /\ RangeGiven /\ Spanning
    /\ Len(df) = 3
    /\ Len(out.rows) = 2
    /\ \A i \in 1..Len(df) : Passes(i)
    /\ out.rows[1].temp # out.rows[2].temp

\* no record of the year matches the range: no rows, no error
C18_EmptyOverlay ==
    /\ op = "get_year_overlay_data"
    /\ \E i \in 1..Len(df) : Passes(i)
    /\ out.rows = <<>>

----------------------------------------------------------------------------
(* Properties of the queries as a whole *)

----------------------------------------------------------------------------
(* Properties of the constructor *)

\* the names of the columns of the file after the caller's renaming
RenamedColumns ==
    {IF h \in DOMAIN args.column_map THEN args.column_map[h] ELSE h :
        h \in {args.csv.header[c] : c \in 1..Len(args.csv.header)}}

\* the required columns that are absent after renaming
Absent == {"DATE", "TMAX", "TMIN"} \ RenamedColumns

\* the position of the column that is called name after renaming
ColumnOf(name) ==
    CHOOSE c \in 1..Len(args.csv.header) :
        (IF args.csv.header[c] \in DOMAIN args.column_map
         THEN args.column_map[args.csv.header[c]] ELSE args.csv.header[c]) = name

\* the rows of the file that have both TMAX and TMIN
ValidRows ==
    {i \in 1..Len(args.csv.rows) :
        /\ args.csv.rows[i][ColumnOf("TMAX")] # NaN
        /\ args.csv.rows[i][ColumnOf("TMIN")] # NaN}

\* C20: constructing a TempAnalyzer fails with an error and yields no
\* analyzer when, after the caller's renaming, any of DATE, TMAX, TMIN is
\* absent, and the error then names every missing required column and lists
\* the available columns; it fails also when every row is missing TMAX or
\* TMIN; and rows missing TMAX or TMIN cause no error as long as one valid
\* row remains.
C20_ConstructionFailures ==
    op = "__init__" =>
        IF Absent # {}
        THEN /\ Raised
             /\ df = <<>>
             /\ {out.raised.missing[k] : k \in 1..Len(out.raised.missing)} = Absent
             /\ {out.raised.available[k] : k \in 1..Len(out.raised.available)}
                    = RenamedColumns
        ELSE IF ValidRows = {}
        THEN Raised /\ df = <<>>
        ELSE ~Raised /\ Len(df) = Cardinality(ValidRows)

\* a renamed file of two rows, one of them without TMIN: an analyzer of one
\* record
C20_Witness ==
    /\ op = "__init__"
    /\ DOMAIN args.column_map # {}
    /\ Absent = {}
    /\ Len(args.csv.rows) = 2
    /\ Cardinality(ValidRows) = 1
    /\ ~Raised
    /\ Len(df) = 1
    /\ out.dropped_count = 1

\* a file whose renaming leaves DATE and TMIN missing: the error names both
C20_MissingColumnsRaised ==
    /\ op = "__init__"
    /\ Absent = {"DATE", "TMIN"}
    /\ Raised
    /\ out.raised.missing = << "DATE", "TMIN" >>

\* all the columns, rows, and no row with both temperatures: the error of
\* line 60
C20_NoValidRowRaised ==
    /\ op = "__init__"
    /\ Absent = {}
    /\ Len(args.csv.rows) = 2
    /\ Raised
    /\ out.raised.message # "Missing required columns"

----------------------------------------------------------------------------
(* Properties of the series after construction *)

\* the date, TMAX and TMIN of row i of the file
FileDate(i) == Date(args.csv.rows[i][ColumnOf("DATE")][1],
                    args.csv.rows[i][ColumnOf("DATE")][2],
                    args.csv.rows[i][ColumnOf("DATE")][3])
FileCell(i, name) == args.csv.rows[i][ColumnOf(name)]

\* record k of the series is row i of the file, with the file's TAVG or the
\* mean of its TMAX and TMIN
IsFileRow(k, i) ==
    /\ df[k].DATE = FileDate(i)
    /\ FileCell(i, "TMAX") # NaN /\ df[k].TMAX = FileCell(i, "TMAX").num
    /\ FileCell(i, "TMIN") # NaN /\ df[k].TMIN = FileCell(i, "TMIN").num
    /\ \/ 2 * df[k].TAVG = df[k].TMAX + df[k].TMIN
       \/ /\ "TAVG" \in RenamedColumns
          /\ FileCell(i, "TAVG") # NaN
          /\ df[k].TAVG = FileCell(i, "TAVG").num

\* C21: after every successful construction the series is non-empty, its
\* records are in ascending date order, strictly when the dates of the file
\* are unique; every record has the TMAX and TMIN of its row of the file
\* and a TAVG; the records are exactly the rows of the file that miss
\* neither TMAX nor TMIN; and dropped_count = original_count - the number of
\* records kept.
C21_SeriesAfterConstruction ==
    (op = "__init__" /\ ~Raised) =>
        /\ Len(df) >= 1
        /\ \A k, l \in 1..Len(df) : k < l => DateLE(df[k].DATE, df[l].DATE)
        /\ (\A i, j \in 1..Len(args.csv.rows) : FileDate(i) = FileDate(j) => i = j)
               => \A k, l \in 1..Len(df) : k < l => DateLT(df[k].DATE, df[l].DATE)
        /\ \E f \in [1..Len(df) -> ValidRows] :
               /\ \A k, l \in 1..Len(df) : f[k] = f[l] => k = l
               /\ \A i \in ValidRows : \E k \in 1..Len(df) : f[k] = i
               /\ \A k \in 1..Len(df) : IsFileRow(k, f[k])
        /\ out.original_count = Len(args.csv.rows)
        /\ out.dropped_count = out.original_count - Len(df)

\* a file of two rows, the later date first, both with their temperatures:
\* two records, the earlier date first, no row dropped
C21_Witness ==
    /\ op = "__init__"
    /\ ~Raised
    /\ Len(args.csv.rows) = 2
    /\ DateLT(FileDate(2), FileDate(1))
    /\ Len(df) = 2
    /\ DateLT(df[1].DATE, df[2].DATE)
    /\ out.dropped_count = 0

----------------------------------------------------------------------------
(* Properties of the queries that match nothing *)

\* the query of the call matches no record: no row meets the threshold, no
\* window of n_days rows fits, no record is of the season, none in the range
MatchesNothing ==
    CASE op = "find_streaks" -> \A i \in 1..Len(df) : ~Meets(i)
      [] op = "find_extreme_periods" -> args.n_days > Len(df)
      [] op = "find_extreme_seasons" ->
             \A i \in 1..Len(df) : SeasonOfMonth(df[i].DATE.month) # args.season
      [] op \in {"find_extreme_date_range", "threshold_histogram"} ->
             \A i \in 1..Len(df) : ~Passes(i)
      [] OTHER -> FALSE

\* C22: a query that matches nothing is not an error: find_streaks,
\* find_extreme_periods, find_extreme_seasons and find_extreme_date_range
\* then return a table of no rows, and threshold_histogram one of no
\* per-year rows, without raising.
C22_NothingMatchedNothingReturned ==
    (/\ op \in {"find_streaks", "find_extreme_periods", "find_extreme_seasons",
                "find_extreme_date_range", "threshold_histogram"}
     /\ MatchesNothing) =>
        IF op = "threshold_histogram"
        THEN out.by_year = <<>> /\ out.summary.total_years = 0
        ELSE out = <<>>

\* a series with winter records only, asked for its summers
C22_Witness ==
    /\ op = "find_extreme_seasons"
    /\ args.season = "summer"
    /\ args.top_n > 0
    /\ Len(df) = 3
    /\ MatchesNothing
    /\ out = <<>>

\* each of the other four queries matching nothing
C22_EmptyStreaks == op = "find_streaks" /\ args.top_n > 0 /\ MatchesNothing
C22_EmptyPeriods == op = "find_extreme_periods" /\ args.top_n > 0 /\ MatchesNothing
C22_EmptyDateRange == op = "find_extreme_date_range" /\ args.top_n > 0 /\ MatchesNothing
C22_EmptyHistogram == op = "threshold_histogram" /\ MatchesNothing

----------------------------------------------------------------------------
(* Properties of the report functions *)

ReportOps == {"print_streak_report", "print_period_report",
              "print_season_report", "print_date_range_report",
              "print_histogram_report",
              "render_streak_analysis", "render_period_analysis",
              "render_seasonal_analysis", "render_date_range_analysis",
              "render_histogram_analysis"}

\* C23: every report function of the CLI and every render function of the UI
\* completes without raising, whatever table its query returned, the empty
\* one included
C23_ReportsComplete ==
    op \in ReportOps => ~Raised

\* the row reports do complete on an empty table
C23_EmptyTableReported ==
    /\ op \in ReportOps \ {"print_histogram_report", "render_histogram_analysis"}
    /\ ~Raised
    /\ out.printed = 0

\* the histogram report of a range with no record has raised
C23_EmptyHistogramReportRaised ==
    /\ op \in {"print_histogram_report", "render_histogram_analysis"}
    /\ aux = <<>>
    /\ Raised

----------------------------------------------------------------------------
(* Properties of the trend label *)

\* the label of the CLI that the UI shows with a capital
LabelShown == [Stable |-> "stable", Increasing |-> "increasing",
               Decreasing |-> "decreasing"]

\* the label of the report in hand, in the CLI's spelling
TrendLabel ==
    IF op = "render_event_frequency_analysis"
    THEN IF out.trend_desc \in DOMAIN LabelShown
         THEN LabelShown[out.trend_desc] ELSE "none"
    ELSE out.trend_desc

\* C24: the trend label is a total three-way classification of the fitted
\* slope of event_days against year: stable iff |slope| < 0.05, increasing
\* iff slope >= 0.05, decreasing iff slope <= -0.05; the slope is the fit of
\* the table the query returned, so the CLI report and the UI (which writes
\* the label with a capital) give the same label for the same table
C24_TrendLabel ==
    op \in {"print_event_frequency_report", "render_event_frequency_analysis"} =>
        LET slope == out.slope
            minus == [num |-> 0 - StableBelow.num, den |-> StableBelow.den]
        IN  /\ slope = Polyfit(EventStats(aux))
            /\ TrendLabel \in {"stable", "increasing", "decreasing"}
            /\ TrendLabel = "stable" <=> MeanLT(AbsSlope(slope), StableBelow)
            /\ TrendLabel = "increasing" <=> MeanLE(StableBelow, slope)
            /\ TrendLabel = "decreasing" <=> MeanLE(slope, minus)

\* a table of two years, twenty years apart, with one more event day in the
\* later year: the slope is 0.05 exactly and the label is increasing
C24_Witness ==
    /\ op = "print_event_frequency_report"
    /\ Len(EventStats(aux)) = 2
    /\ out.slope.num * 20 = out.slope.den
    /\ out.trend_desc = "increasing"

\* a slope that is not zero and is labelled stable, in the UI
C24_StableShown ==
    /\ op = "render_event_frequency_analysis"
    /\ out.slope.num # 0
    /\ out.trend_desc = "Stable"

\* a decreasing trend: a table of two years with fewer event days in the
\* later one
C24_Decreasing ==
    /\ op = "print_event_frequency_report"
    /\ Len(EventStats(aux)) = 2
    /\ out.trend_desc = "decreasing"

----------------------------------------------------------------------------
(* Properties of the rows of find_extreme_periods *)

\* C25: each window find_extreme_periods returns covers exactly n_days
\* row-adjacent records: it ends at a row e with n_days - 1 rows before it
\* (so at none of the first n_days - 1 rows), its start_date and end_date
\* are the dates of the first and last of these rows, its length is n_days,
\* its avg_temp is the mean of the metric over exactly these rows, its
\* min_temp and max_temp are the least and greatest value over the same
\* rows, and min_temp <= avg_temp <= max_temp
C25_WindowCoversItsRows ==
    op = "find_extreme_periods" =>
        \A k \in 1..Len(out) :
            \E e \in 1..Len(df) :
                LET rows == WindowRows(e)
                IN  /\ e >= args.n_days
                    /\ rows \subseteq 1..Len(df)
                    /\ Cardinality(rows) = args.n_days
                    /\ out[k].length = args.n_days
                    /\ out[k].end_date = df[e].DATE
                    /\ out[k].start_date = df[e - args.n_days + 1].DATE
                    /\ MeanEQ(out[k].avg_temp,
                              [num |-> SumOver(rows), den |-> args.n_days])
                    /\ \E i \in rows : out[k].min_temp = df[i][args.metric]
                    /\ \A i \in rows : out[k].min_temp <= df[i][args.metric]
                    /\ \E i \in rows : out[k].max_temp = df[i][args.metric]
                    /\ \A i \in rows : out[k].max_temp >= df[i][args.metric]
                    /\ MeanLE(Num(out[k].min_temp), out[k].avg_temp)
                    /\ MeanLE(out[k].avg_temp, Num(out[k].max_temp))

\* a window of two rows or more that starts after the first row of the
\* series, with its mean strictly between its least and greatest value
C25_Witness ==
    /\ op = "find_extreme_periods"
    /\ args.n_days >= 2
    /\ \E k \in 1..Len(out) :
           /\ out[k].start_date # df[1].DATE
           /\ MeanLT(Num(out[k].min_temp), out[k].avg_temp)
           /\ MeanLT(out[k].avg_temp, Num(out[k].max_temp))

----------------------------------------------------------------------------
(* Properties of the per-year rows of threshold_histogram *)

\* row i of the series is in the range of the call, and the range_year it
\* counts for
InCallRange(i) ==
    IF Spanning
    THEN LexLE(RangeStart, MD(i)) \/ LexLE(MD(i), RangeEnd)
    ELSE LexLE(RangeStart, MD(i)) /\ LexLE(MD(i), RangeEnd)

CallRangeYear(i) ==
    IF Spanning /\ ~LexLE(RangeStart, MD(i))
    THEN df[i].DATE.year - 1 ELSE df[i].DATE.year

\* row i meets the threshold condition of the call
MeetsCall(i) ==
    IF args.direction = "above" THEN df[i][args.metric] >= args.threshold
                                ELSE df[i][args.metric] <= args.threshold

\* C26: threshold_histogram returns exactly one per-year row for each
\* range_year that has an in-range record; the row's total_days is the number
\* of in-range records of that range_year and its days_meeting_threshold the
\* number of them that meet the threshold; the total_days add up to the
\* number of in-range records; summary.total_years is the number of rows;
\* with a row or more, min_days <= avg_days <= max_days
C26_OneRowPerRangeYear ==
    op = "threshold_histogram" =>
        LET in_range == {i \in 1..Len(df) : InCallRange(i)}
            years    == {CallRangeYear(i) : i \in in_range}
            by_year  == out.by_year
            n        == Len(by_year)
        IN  /\ {by_year[k].year : k \in 1..n} = years
            /\ n = Cardinality(years)
            /\ \A k \in 1..n :
                   LET of_year == {i \in in_range : CallRangeYear(i) = by_year[k].year}
                   IN  /\ by_year[k].total_days = Cardinality(of_year)
                       /\ by_year[k].total_days >= 1
                       /\ by_year[k].days_meeting_threshold =
                              Cardinality({i \in of_year : MeetsCall(i)})
            /\ SumSeq([k \in 1..n |-> by_year[k].total_days]) = Cardinality(in_range)
            /\ out.summary.total_years = n
            /\ n >= 1 => /\ MeanLE(out.summary.min_days, out.summary.avg_days)
                         /\ MeanLE(out.summary.avg_days, out.summary.max_days)

\* a spanning range: two records of one range_year in two calendar years and
\* a record out of range; one row, two days, one of them meeting
C26_Witness ==
    /\ op = "threshold_histogram"
    /\ Spanning
    /\ Len(df) = 3
    /\ Len(out.by_year) = 1
    /\ out.by_year[1].total_days = 2
    /\ out.by_year[1].days_meeting_threshold = 1
    /\ \E i, j \in 1..Len(df) :
           /\ InCallRange(i) /\ InCallRange(j)
           /\ df[i].DATE.year # df[j].DATE.year

\* two range_years with different counts: min_days < avg_days < max_days
C26_SummaryBetween ==
    /\ op = "threshold_histogram"
    /\ Len(out.by_year) = 2
    /\ MeanLT(out.summary.min_days, out.summary.avg_days)
    /\ MeanLT(out.summary.avg_days, out.summary.max_days)

----------------------------------------------------------------------------
(* Properties of the command line of --freeze-dates *)

\* the metric the user supplied on the command line in a form argparse
\* accepts, "" when none was supplied
SuppliedMetric ==
    IF args.argv = <<>> THEN "" ELSE ParseArgs(args.argv).metric

\* C27: the freeze-date analysis of the CLI is run with TMIN unless the user
\* set the metric: whenever the command line supplies the metric in a form
\* argparse accepts ('--metric TMAX', '--metric=TMAX', an unambiguous
\* abbreviation), find_freeze_dates is called with that metric, and with
\* TMIN only when none was supplied
C27_FreezeMetricIsTheUsers ==
    op = "find_freeze_dates" =>
        args.metric = IF SuppliedMetric = "" THEN "TMIN" ELSE SuppliedMetric

\* '--metric TMAX' is honoured
C27_ExactOptionHonoured ==
    /\ op = "find_freeze_dates"
    /\ args.argv = << Option(MetricOption, ""), Option(<<>>, "TMAX") >>
    /\ args.metric = "TMAX"

\* '--metric=TMAX' is accepted by the parser and the analysis runs on TMIN
C27_EqualsFormIgnored ==
    /\ op = "find_freeze_dates"
    /\ args.argv = << Option(MetricOption, "TMAX") >>
    /\ args.metric = "TMIN"

\* '--met TMAX' is accepted by the parser and the analysis runs on TMIN
C27_AbbreviationIgnored ==
    /\ op = "find_freeze_dates"
    /\ args.argv = << Option(SubSeq(MetricOption, 1, 5), ""), Option(<<>>, "TMAX") >>
    /\ args.metric = "TMIN"

----------------------------------------------------------------------------
(* Properties of the overlay against the envelope *)

\* the plot_x of the row calculate_daily_records has for calendar day md
\* when it is called with the metric and the range of the call in hand
EnvelopePlotX(md) ==
    LET daily == DailyStats(DailyDf(args.start_month, args.start_day,
                                    args.end_month, args.end_day), args.metric)
        g     == CHOOSE g \in 1..Len(daily) : RowMD(daily[g]) = md
    IN  PlotX(daily[g], args.start_month, args.start_day,
              args.end_month, args.end_day)

\* C28: with the same metric and range, every row get_year_overlay_data
\* returns has the plot_x of the row calculate_daily_records returns for the
\* same (month, day), so that the overlay lines up with the envelope; for
\* every overlay year, leap or not, and every series
C28_OverlayAlignedWithEnvelope ==
    op = "get_year_overlay_data" =>
        \A k \in 1..Len(out.rows) :
            out.rows[k].plot_x = EnvelopePlotX(RowMD(out.rows[k]))

\* Mar 1 of the leap year 2020 is overlaid one day to the right of the
\* envelope's Mar 1, which has the day_of_year of 2019
C28_OverlayOneDayOff ==
    /\ op = "get_year_overlay_data"
    /\ \E k \in 1..Len(out.rows) :
           /\ RowMD(out.rows[k]) = <<3, 1>>
           /\ out.rows[k].plot_x = EnvelopePlotX(<<3, 1>>) + 1

\* an overlay of two rows or more that lines up with the envelope
C28_OverlayAligned ==
    /\ op = "get_year_overlay_data"
    /\ Len(out.rows) >= 2
    /\ \A k \in 1..Len(out.rows) :
           out.rows[k].plot_x = EnvelopePlotX(RowMD(out.rows[k]))

----------------------------------------------------------------------------
(* Properties of the order of the overlay rows *)

\* C29: the rows get_year_overlay_data returns are in chronological order:
\* in the returned order (ascending plot_x) the dates of the records they
\* come from, which are all of the year asked for, are strictly increasing;
\* for every range, the ranges that span the year boundary included
C29_OverlayChronological ==
    op = "get_year_overlay_data" =>
        \A k, l \in 1..Len(out.rows) :
            k < l => /\ LexLE(RowMD(out.rows[k]), RowMD(out.rows[l]))
                     /\ RowMD(out.rows[k]) # RowMD(out.rows[l])

\* a spanning range: the record of Dec 31 is returned before the record of
\* Feb 29 of the same year, with a smaller plot_x
C29_DecemberBeforeFebruary ==
    /\ op = "get_year_overlay_data"
    /\ RangeGiven /\ Spanning
    /\ Len(out.rows) = 2
    /\ RowMD(out.rows[1]) = <<12, 31>>
    /\ RowMD(out.rows[2]) = <<2, 29>>
    /\ out.rows[1].plot_x < out.rows[2].plot_x

\* a range that does not span: two rows in the order of their dates
C29_ChronologicalWithoutSpan ==
    /\ op = "get_year_overlay_data"
    /\ RangeGiven /\ ~Spanning
    /\ Len(out.rows) = 2
    /\ \A k, l \in 1..Len(out.rows) :
           k < l => out.rows[k].day_of_year < out.rows[l].day_of_year

----------------------------------------------------------------------------
(* Properties of the whole-year histogram against the event frequency *)

\* per-year rows a of threshold_histogram and b of
\* find_extreme_event_frequency have the same years and, year by year, the
\* same count of days meeting the threshold, total_days and percentage
SameYearCounts(a, b) ==
    /\ {a[k].year : k \in 1..Len(a)} = {b[g].year : g \in 1..Len(b)}
    /\ Len(a) = Len(b)
    /\ \A k \in 1..Len(a) : \A g \in 1..Len(b) :
           a[k].year = b[g].year =>
               /\ a[k].days_meeting_threshold = b[g].event_days
               /\ a[k].total_days = b[g].total_days
               /\ a[k].percentage = b[g].percentage

\* C30: on the full calendar year the two counters agree: for every series,
\* metric, threshold and direction, threshold_histogram with the range
\* Jan 1 - Dec 31 and find_extreme_event_frequency report the same set of
\* years and, for each year, the same count of days meeting the threshold,
\* the same total_days and the same percentage
C30_WholeYearCountsAgree ==
    /\ (/\ op = "threshold_histogram"
        /\ RangeStart = <<1, 1>> /\ RangeEnd = <<12, 31>>) =>
           SameYearCounts(out.by_year,
                          EventStats(EventDf(args.metric, args.threshold,
                                             args.direction)))
    /\ op = "find_extreme_event_frequency" =>
           SameYearCounts(YearStats(HistogramDf(1, 1, 12, 31, args.metric,
                                                args.threshold, args.direction)),
                          out)

\* the whole-year histogram of three records in two years, one of them on
\* Dec 31, with a year in which one day of two meets the threshold
C30_Witness ==
    /\ op = "threshold_histogram"
    /\ RangeStart = <<1, 1>> /\ RangeEnd = <<12, 31>>
    /\ Len(df) = 3
    /\ \E i \in 1..Len(df) : MD(i) = <<12, 31>>
    /\ Len(out.by_year) = 2
    /\ \E k \in 1..2 : /\ out.by_year[k].total_days = 2
                       /\ out.by_year[k].days_meeting_threshold = 1

----------------------------------------------------------------------------
(* Specifications *)

InitStreaks ==
    /\ df \in DailySeries(MaxLen)
    /\ op = "idle"
    /\ args = NoCall
    /\ aux = <<>>
    /\ out = <<>>

NextStreaks == find_streaks \/ consume

InitPeriods == InitStreaks

NextPeriods == find_extreme_periods \/ consume

SpecPeriods == InitPeriods /\ [][NextPeriods]_vars

\* the <<month, day>> endpoints the range queries are called with; Feb 30 is
\* no date
RangeMDs == { <<1, 1>>, <<1, 10>>, <<2, 30>>, <<3, 1>>, <<6, 15>>,
              <<12, 20>>, <<12, 31>> }

RangeArgs == RangeMDs \X RangeMDs

InitRange ==
    /\ df \in CalendarSeries(MaxRangeLen)
    /\ op = "idle"
    /\ args = NoCall
    /\ aux = <<>>
    /\ out = <<>>

find_extreme_date_range ==
    DateRangeCall(RangeArgs, {"TAVG"}, Extremes, {MaxTopN})

threshold_histogram ==
    HistogramCall(RangeArgs, {"TMIN"}, {1}, Directions)

NextRange == find_extreme_date_range \/ threshold_histogram \/ consume

SpecRange == InitRange /\ [][NextRange]_vars

InitSeasons ==
    /\ df \in CalendarSeries(MaxCalLen)
    /\ op = "idle"
    /\ args = NoCall
    /\ aux = <<>>
    /\ out = <<>>

find_extreme_seasons ==
    SeasonCall(SeasonNames, {"TAVG"}, Extremes, {0, MaxTopN})

NextSeasons == find_extreme_seasons \/ consume

SpecSeasons == InitSeasons /\ [][NextSeasons]_vars

SpecStreaks == InitStreaks /\ [][NextStreaks]_vars

\* the rankings, with every top_n from 0 on: three winters, and two years
\* with a new year between them
RankPool == << Date(2020, 2, 29), Date(2020, 12, 20), Date(2020, 12, 31),
               Date(2021, 1, 5), Date(2021, 12, 31) >>

InitRank ==
    /\ df \in SeriesOn(RankPool, MaxCalLen)
    /\ op = "idle"
    /\ args = NoCall
    /\ aux = <<>>
    /\ out = <<>>

\* the whole year, and a range across the new year
RankRanges == { << <<1, 1>>, <<12, 31>> >>, << <<12, 20>>, <<1, 10>> >> }

find_extreme_seasons_top_n ==
    SeasonCall({"winter"}, {"TAVG"}, Extremes, 0..MaxTopN)

find_extreme_date_range_top_n ==
    DateRangeCall(RankRanges, {"TAVG"}, Extremes, 0..MaxTopN)

NextRank ==
    find_extreme_seasons_top_n \/ find_extreme_date_range_top_n \/ consume

SpecRank == InitRank /\ [][NextRank]_vars

\* find_freeze_dates over two years, one of them a leap year, with records
\* on both sides of July 1
FreezePool == << Date(2020, 2, 29), Date(2020, 6, 30), Date(2020, 7, 1),
                 Date(2020, 12, 31), Date(2021, 3, 1), Date(2021, 6, 30),
                 Date(2021, 7, 1) >>

InitFreeze ==
    /\ df \in SeriesOn(FreezePool, MaxCalLen)
    /\ op = "idle"
    /\ args = NoCall
    /\ aux = <<>>
    /\ out = <<>>

find_freeze_dates == FreezeCall({"TMIN", "TMAX"}, {0, 2})

NextFreeze == find_freeze_dates \/ consume

SpecFreeze == InitFreeze /\ [][NextFreeze]_vars

\* the per-year counts of threshold_histogram and find_extreme_event_frequency
threshold_histogram_counts ==
    HistogramCall(RankRanges, {"TMIN"}, {1}, Directions)

find_extreme_event_frequency ==
    EventFrequencyCall({"TMIN"}, {1}, Directions)

NextCounts == threshold_histogram_counts \/ find_extreme_event_frequency \/ consume

SpecCounts == InitSeasons /\ [][NextCounts]_vars

\* the climate band: a day of a year that is not a leap year, and a leap
\* year with both of its ends and the days around the leap day
DailyPool == << Date(2019, 3, 1), Date(2020, 1, 1), Date(2020, 2, 29),
                Date(2020, 3, 1), Date(2020, 6, 5), Date(2020, 6, 25),
                Date(2020, 12, 31) >>

\* no range; Dec 20 - Jan 10 and Jun 20 - Jun 10, which span the year
\* boundary; Mar 1 - Jun 15, which does not
DailyRanges == { << <<None, None>>, <<None, None>> >>,
                 << <<12, 20>>, <<1, 10>> >>,
                 << <<6, 20>>, <<6, 10>> >>,
                 << <<3, 1>>, <<6, 15>> >> }

InitDaily ==
    /\ df \in SeriesOn(DailyPool, MaxCalLen)
    /\ op = "idle"
    /\ args = NoCall
    /\ aux = <<>>
    /\ out = <<>>

calculate_daily_records == DailyRecordsCall(DailyRanges, {"TMAX"})

get_year_overlay_data == OverlayCall({2020}, DailyRanges, {"TMAX"})

NextDaily == calculate_daily_records \/ get_year_overlay_data \/ consume

SpecDaily == InitDaily /\ [][NextDaily]_vars

\* every analysis method, called in any order on one series
create_temperature_heatmap == HeatmapCall({"TAVG"}, {"absolute", "anomaly"})

NextQueries ==
    \/ find_streaks
    \/ find_extreme_periods
    \/ SeasonCall({"winter", "summer"}, {"TAVG"}, Extremes, {0, MaxTopN})
    \/ find_extreme_date_range_top_n
    \/ HistogramCall(RankRanges, {"TMIN"}, {1}, {"below"})
    \/ EventFrequencyCall({"TMAX"}, {1}, {"above"})
    \/ FreezeCall({"TMIN"}, {1})
    \/ create_temperature_heatmap
    \/ DailyRecordsCall(DailyRanges, {"TMAX"})
    \/ OverlayCall({2020}, DailyRanges, {"TMAX"})
    \/ consume

SpecQueries == InitRank /\ [][NextQueries]_vars

\* the constructor, on files of up to MaxRows rows under five headers
Headers == { << "DATE", "TMAX", "TMIN" >>,
             << "DATE", "TMAX", "TMIN", "TAVG" >>,
             << "Date", "Max_Temp", "Min_Temp" >>,
             << "DATE", "TMAX" >>,
             << "STATION", "TMIN" >> }

\* the cells a column of the file can hold
Cells ==
    [name \in {"DATE", "Date", "STATION", "TMAX", "TMIN", "TAVG", "Max_Temp", "Min_Temp"} |->
        IF name \in {"DATE", "Date"} THEN { <<2020, 12, 31>>, <<2021, 1, 1>> }
        ELSE IF name = "STATION" THEN { <<"USW00003856">> }
        ELSE IF name = "TAVG" THEN { NaN, Num(1) }
        ELSE { NaN, Num(2) }]

\* no column_map, the map of the docstring, and a map of one column
ColumnMaps ==
    { [n \in {} |-> n],
      [n \in {"Date", "Max_Temp", "Min_Temp"} |->
          IF n = "Date" THEN "DATE" ELSE IF n = "Max_Temp" THEN "TMAX" ELSE "TMIN"],
      [n \in {"Max_Temp"} |-> "TMAX"] }

InitLoad ==
    /\ df = <<>>
    /\ op = "new"
    /\ args = NoCall
    /\ aux = <<>>
    /\ out = <<>>

NextLoad == Construct(Headers, Cells, MaxRows, ColumnMaps)

SpecLoad == InitLoad /\ [][NextLoad]_vars

\* the queries that have a report, each followed by its CLI or UI report
NextReports ==
    \/ find_streaks
    \/ find_extreme_periods
    \/ SeasonCall({"winter", "summer"}, {"TAVG"}, Extremes, {0, MaxTopN})
    \/ find_extreme_date_range_top_n
    \/ HistogramCall(RankRanges, {"TMIN"}, {1}, {"below"})
    \/ PrintRows("find_streaks", "print_streak_report")
    \/ PrintRows("find_extreme_periods", "print_period_report")
    \/ PrintRows("find_extreme_seasons", "print_season_report")
    \/ PrintRows("find_extreme_date_range", "print_date_range_report")
    \/ print_histogram_report
    \/ RenderRows("find_streaks", "render_streak_analysis")
    \/ RenderRows("find_extreme_periods", "render_period_analysis")
    \/ RenderRows("find_extreme_seasons", "render_seasonal_analysis")
    \/ RenderRows("find_extreme_date_range", "render_date_range_analysis")
    \/ render_histogram_analysis
    \/ consume

SpecReports == InitRank /\ [][NextReports]_vars

\* find_extreme_event_frequency and its reports over years one and twenty
\* years apart
TrendPool == << Date(2000, 1, 1), Date(2020, 1, 1), Date(2020, 1, 2),
                Date(2021, 1, 1) >>

InitTrend ==
    /\ df \in SeriesOn(TrendPool, MaxCalLen)
    /\ op = "idle"
    /\ args = NoCall
    /\ aux = <<>>
    /\ out = <<>>

NextTrend ==
    \/ EventFrequencyCall({"TMIN"}, {1}, Directions)
    \/ print_event_frequency_report
    \/ render_event_frequency_analysis
    \/ consume

SpecTrend == InitTrend /\ [][NextTrend]_vars

\* the command lines of --freeze-dates: no --metric, or --metric and its
\* abbreviations down to --m, with the value in the next element, after an
\* '=', or missing
FreezeArgvs ==
    LET flags == {SubSeq(MetricOption, 1, n) : n \in 3..Len(MetricOption)}
    IN  {<<>>}
        \cup {<<Option(f, "")>> : f \in flags}
        \cup {<<Option(f, v)>> : f \in flags, v \in MetricChoices}
        \cup {<<Option(f, ""), Option(<<>>, v)>> : f \in flags, v \in MetricChoices}

NextCli == FreezeDatesMain(FreezeArgvs) \/ consume

SpecCli == InitFreeze /\ [][NextCli]_vars

====
